---- MODULE Spec2Model ----
(***************************************************************************)
(* State-machine model of the transactional game-state engine of the       *)
(* SaverFox backend (apps/api-ts): WalletService, ShopService,             *)
(* MissionService, GoalService, AdventureService with its AI client,       *)
(* ProfileService, CharacterService and TamagotchiService over a           *)
(* PostgreSQL store, and the controllers behind the JWT guard.             *)
(*                                                                         *)
(* Store model.  dataSource.transaction() is called without an isolation   *)
(* level, so every transaction runs at the PostgreSQL default READ         *)
(* COMMITTED: each statement reads the latest committed rows, and the      *)
(* writes of a transaction become visible at its commit.  An action below  *)
(* is one database round trip of a handler (a read), or the writes of one  *)
(* transaction together with its commit.  TypeORM's save() of a loaded     *)
(* entity issues UPDATE ... SET col = <value held in memory> WHERE id = .. *)
(* so a write stores the value computed from the earlier read.             *)
(*                                                                         *)
(* WalletService.credit/debit always open their OWN transaction on         *)
(* this.dataSource; when they are called from inside another service's     *)
(* transaction callback they still commit on their own.                    *)
(*                                                                         *)
(* Amounts are whole coins (the store keeps decimal(10,2); every amount    *)
(* the services pass is a catalog price, a reward or a floor()).           *)
(***************************************************************************)
EXTENDS Integers, Sequences, FiniteSets, TLC

\* ------------------------------------------------------------------ bounds
\* requests started in one behaviour
MaxOps == 3
\* largest amount a caller passes to Credit / Debit
MaxAmount == 2
\* goals created in one behaviour
MaxGoals == 1
\* goal targets and progress amounts are 0, GoalStep and 2 * GoalStep
GoalStep == 5

\* --------------------------------------------------------------- universe
Users == {"u1"}
\* the users rows: the accounts a bearer credential can resolve to
Accounts == {"u1", "u2"}
\* the value of a property the object does not have
Undefined == "undefined"
Procs == {1, 2}
\* what findOne(Wallet) returns when the user has no wallets row
NoWallet == [exists |-> FALSE, balance |-> 0]
WalletRow(b) == [exists |-> TRUE, balance |-> b]
NoRow == 0
\* the jsonb column scores of an adventure holding null; a scores map is the
\* record of its metrics
NullScores == [null |-> TRUE]

\* catalog rows (seed.controller.ts seedFoods / seedCharacters, prices scaled
\* to the model's amounts; a starter character costs 0)
Items == {"apple", "foxy", "dragon"}
ItemType(i) == IF i = "apple" THEN "food" ELSE "character"
Price(i) == CASE i = "apple" -> 1 [] i = "foxy" -> 0 [] i = "dragon" -> 2

VARIABLES
    wallets,       \* userId -> the wallets row of the user (user_id is unique)
    ledger,        \* wallet_transactions, in insertion order
    inventory,     \* user_inventory rows, in insertion order
    userMissions,  \* user_missions rows, in insertion order
    expenses,      \* expenses rows (amounts), in insertion order
    savings,       \* savings rows (amounts), in insertion order
    goals,         \* goals rows, in insertion order
    mission,       \* the missions row whose active_date is today, or NoMission
    procs,         \* the requests in flight: position and local variables
    last,          \* the response of the request that completed most recently
    nops,          \* requests started so far
    adventures,    \* adventures rows, in insertion order
    profiles,      \* userId -> the user has a profiles row
    aiCalls,       \* HTTP requests sent to the AI service so far
    tamagotchis,   \* tamagotchis rows, in insertion order
    onboarding,    \* userId -> onboarding_completed of the user's profiles row
    foods,         \* food id -> nutrition_value of the foods row
    clock          \* the instant (hours, UTC) and the server's time zone

vars == <<wallets, ledger, inventory, userMissions, expenses, savings, goals,
          mission, procs, last, nops, adventures, profiles, aiCalls,
          tamagotchis, onboarding, foods, clock>>

db == <<wallets, ledger, inventory, userMissions, expenses, savings, goals>>

\* the tables of the adventure coach and the traffic to the AI service
coach == <<adventures, profiles, aiCalls>>

\* the tables of the tamagotchi engine and of onboarding
pet == <<tamagotchis, onboarding, foods>>

\* ------------------------------------------------------------------- clock
\* an instant is a number of hours since 00:00 UTC of day 0; the zone is the
\* offset of the server's local time from UTC, in hours
Epoch == [now |-> 24, zone |-> 0]

\* ------------------------------------------------------------ mission rows
\* requirements is a jsonb map; a key that is absent reads as undefined
Req(m, key) == IF key \in DOMAIN m.requirements THEN m.requirements[key] ELSE 0

NoMission == [id |-> "none", missionType |-> "none", requirements |-> [none |-> 0],
              rewardCoins |-> 0]

\* the two rows SeedController.seedMissions inserts for LogExpense / LogSaving,
\* and rows of the three types MissionService.calculateProgress names
SeedMissions ==
    { [id |-> "seedExp", missionType |-> "expense_tracking",
       requirements |-> [expense_count |-> 3], rewardCoins |-> 10],
      [id |-> "seedSav", missionType |-> "saving_tracking",
       requirements |-> [saving_count |-> 1], rewardCoins |-> 15] }

ServiceMissions ==
    { [id |-> "exp3", missionType |-> "log_expenses",
       requirements |-> [expenseCount |-> 3], rewardCoins |-> 10],
      [id |-> "exp2", missionType |-> "log_expenses",
       requirements |-> [expenseCount |-> 2], rewardCoins |-> 0],
      [id |-> "sav1", missionType |-> "log_savings",
       requirements |-> [savingCount |-> 1], rewardCoins |-> 15],
      [id |-> "comb", missionType |-> "combined",
       requirements |-> [expenseCount |-> 1, savingCount |-> 1], rewardCoins |-> 5] }

Missions == SeedMissions \cup ServiceMissions

\* ------------------------------------------------------------- percentages
\* A percentage is the exact fraction <<numerator, denominator>> of the
\* JavaScript expression; comparisons cross-multiply.
PctGe100(f) == f[1] >= 100 * f[2]
PctEq(f, g) == f[1] * g[2] = g[1] * f[2]
Min(a, b) == IF a <= b THEN a ELSE b
\* Math.min(100, x)
Min100(f) == IF PctGe100(f) THEN <<100, 1>> ELSE f
Zero == <<0, 1>>

\* -------------------------------------------------------------- exceptions
\* the subclasses of HttpException the services throw
HttpExceptions == {"BadRequestException", "UnauthorizedException",
                   "ForbiddenException", "NotFoundException", "ConflictException",
                   "ServiceUnavailableException"}

\* HttpException.getStatus() of each class
getStatus(exception) ==
    CASE exception = "BadRequestException" -> 400
      [] exception = "UnauthorizedException" -> 401
      [] exception = "ForbiddenException" -> 403
      [] exception = "NotFoundException" -> 404
      [] exception = "ConflictException" -> 409
      [] exception = "ServiceUnavailableException" -> 503

\* throw sites that answer a repeated submission or a completed goal with a
\* ConflictException
thrownConflict(status) ==
    CASE status \in {"InvalidAmount", "InvalidChoice", "InvalidStarter",
                     "InsufficientFunds", "InsufficientQuantity"}
             -> "BadRequestException"
      [] status \in {"AlreadySubmitted", "AlreadyCompleted", "Conflict"}
             -> "ConflictException"
      [] status \in {"NotFound", "NoActiveMission"} -> "NotFoundException"
      [] status = "Forbidden" -> "ForbiddenException"
      [] status = "Unauthorized" -> "UnauthorizedException"
      [] status = "ServiceUnavailable" -> "ServiceUnavailableException"
      [] OTHER -> "QueryFailedError"

\* the class of the exception the code throws where a handler fails with the
\* given error: `new BadRequestException(...)` for the amount checks
\* (wallet.service.ts 84, 140; goal.service.ts 47, 151; mission 304, 354),
\* insufficient funds (wallet.service.ts 156) and quantity (consumeItem), an
\* invalid or repeated choice (adventure.service.ts 142, 147), a completed
\* goal (goal.service.ts 165) and a character that is no starter (part_011
\* 223); NotFoundException, ConflictException, ForbiddenException,
\* UnauthorizedException and ServiceUnavailableException at the sites named
\* after them; a failed statement surfaces as the driver's QueryFailedError
thrown(status) ==
    CASE status \in {"InvalidAmount", "InvalidChoice", "InvalidStarter",
                     "InsufficientFunds", "InsufficientQuantity",
                     "AlreadySubmitted", "AlreadyCompleted"}
             -> "BadRequestException"
      [] status = "Conflict" -> "ConflictException"
      [] status \in {"NotFound", "NoActiveMission"} -> "NotFoundException"
      [] status = "Forbidden" -> "ForbiddenException"
      [] status = "Unauthorized" -> "UnauthorizedException"
      [] status = "ServiceUnavailable" -> "ServiceUnavailableException"
      [] OTHER -> "QueryFailedError"

\* AllExceptionsFilter.catch, lines 29-72: the status of the response
AllExceptionsFilter_catch(exception) ==
    IF exception \in HttpExceptions THEN getStatus(exception) ELSE 500

\* the HTTP status of the response to a request: 200 stands for the 2xx of a
\* handler that returned
Http(status) == IF status = "ok" THEN 200 ELSE AllExceptionsFilter_catch(thrown(status))

\* ---------------------------------------------------------------- requests
Idle == [pc |-> "idle", op |-> "none", user |-> "u1", amount |-> 0, item |-> "none",
         goal |-> 0, ret |-> "none", w |-> NoWallet, row |-> NoRow, quantity |-> 0,
         um |-> [idx |-> NoRow, expenseCount |-> 0, savingCount |-> 0,
                 completed |-> FALSE, completedAt |-> FALSE],
         gl |-> [currentAmount |-> 0, completed |-> FALSE, completedAt |-> FALSE],
         pct |-> Zero, bonus |-> -1, pre |-> <<>>,
         adventure |-> 0, choiceIndex |-> 0, attempt |-> 0,
         response |-> [choices |-> 0, opik_trace_id |-> 0, scores |-> NullScores],
         received |-> << >>, slept |-> << >>, principal |-> "u1", owner |-> "u1",
         tg |-> [idx |-> NoRow, hunger |-> 0, happiness |-> 0, health |-> 0]]

NoResponse == [op |-> "none", user |-> "u1", status |-> "none", amount |-> 0,
               item |-> "none", goal |-> 0, balance |-> -1, pct |-> Zero,
               completed |-> FALSE, bonus |-> -1, pre |-> <<>>,
               adventure |-> 0, choiceIndex |-> 0,
               response |-> [choices |-> 0, opik_trace_id |-> 0, scores |-> NullScores],
               received |-> << >>, slept |-> << >>, principal |-> "u1", http |-> 0,
               today |-> -1,
               stats |-> [hunger |-> 0, happiness |-> 0, health |-> 0]]

InFlight == {p \in Procs : procs[p].pc # "idle"}

\* a request arrives: at most `limit` requests are served at a time.  The
\* serving slots are interchangeable, so a request takes the first free one.
Arrive(p, limit) ==
    /\ procs[p].pc = "idle"
    /\ \A q \in Procs : procs[q].pc = "idle" => p <= q
    /\ nops < MaxOps
    /\ Cardinality(InFlight) < limit
    /\ nops' = nops + 1

\* pre and last are history variables: the store as the request found it and
\* the response it got.  They are kept only when requests are served one at a
\* time, where "before the call" and "the last response" are defined.
Snapshot(limit) == IF limit = 1 THEN db \o coach \o pet ELSE << >>

Call(p, limit, fields) ==
    /\ procs' = [procs EXCEPT ![p] = [f \in DOMAIN Idle |->
                 IF f \in DOMAIN fields THEN fields[f]
                 ELSE IF f = "pre" THEN Snapshot(limit)
                 ELSE Idle[f]]]
    /\ last' = last

\* a request rejected by its handler's first checks, before any round trip
Reject(p, limit, status, fields) ==
    /\ procs' = procs
    /\ last' = IF limit # 1 THEN last
               ELSE [f \in DOMAIN NoResponse |->
                       IF f \in DOMAIN fields THEN fields[f]
                       ELSE IF f = "status" THEN status
                       ELSE IF f = "http" THEN Http(status)
                       ELSE IF f = "pre" THEN Snapshot(limit)
                       ELSE NoResponse[f]]

\* the handler returns or throws: the response is recorded
Respond(p, status, fields) ==
    /\ procs' = [procs EXCEPT ![p] = Idle]
    /\ last' = IF procs[p].pre = << >> THEN last
               ELSE [f \in DOMAIN NoResponse |->
                       IF f \in DOMAIN fields THEN fields[f]
                       ELSE IF f = "status" THEN status
                       ELSE IF f = "http" THEN Http(status)
                       ELSE IF f \in {"op", "user", "amount", "item", "goal", "pre",
                                     "adventure", "choiceIndex", "response",
                                     "received", "slept", "principal"}
                            THEN procs[p][f]
                       ELSE NoResponse[f]]

Goto(p, fields) ==
    procs' = [procs EXCEPT ![p] = [f \in DOMAIN Idle |->
                 IF f \in DOMAIN fields THEN fields[f] ELSE procs[p][f]]]

\* ------------------------------------------------------------------ wallet
LedgerRow(u, amt, type, desc) ==
    [walletId |-> u, amount |-> amt, transactionType |-> type, description |-> desc]

\* description of the ledger row a nested wallet call writes
Desc(pr) ==
    CASE pr.op \in {"logExpense", "logSaving"} -> mission.id
      [] pr.op = "addProgress" -> pr.goal
      [] pr.op = "purchaseItem" -> pr.item
      [] OTHER -> "none"

TxType(pr) ==
    CASE pr.op \in {"logExpense", "logSaving"} -> "mission_reward"
      [] pr.op = "addProgress" -> "goal_bonus"
      [] pr.op = "purchaseItem" -> "shop_purchase"
      [] OTHER -> pr.op

\* a credit check that lets an amount of zero through
creditAcceptsZero(amount) == amount < 0

\* WalletService.credit, lines 83-85: the amount check, before any transaction
creditRejects(amount) == amount <= 0

\* an amount check that lets zero through
rejectsNegative(amount) == amount < 0

\* WalletService.debit, lines 139-141
debitRejects(amount) == amount <= 0

\* a balance check that compares with zero instead of the amount
insufficientZero(currentBalance, amount) == currentBalance <= 0

\* WalletService.debit, line 155
insufficient(currentBalance, amount) == currentBalance < amount

\* the CHECK constraint of the wallets table
CHK_wallets_balance_non_negative(balance) == balance >= 0

\* Credit(userId, amount) called directly
credit_call(p, limit) ==
    \E u \in Users, a \in 0..MaxAmount :
        /\ Arrive(p, limit)
        /\ IF creditRejects(a)
           THEN Reject(p, limit, "InvalidAmount",
                       [op |-> "credit", user |-> u, amount |-> a])
           ELSE Call(p, limit, [op |-> "credit", user |-> u, pc |-> "credit_find",
                                amount |-> a, ret |-> "return"])
        /\ UNCHANGED <<db, mission, clock, pet, coach>>

\* credit, lines 89-91: manager.findOne(Wallet, {userId})
credit_find(p) ==
    LET pr == procs[p] IN
    /\ pr.pc = "credit_find"
    /\ Goto(p, [pc |-> "credit_save",
                w |-> wallets[pr.user]])
    /\ UNCHANGED <<db, mission, clock, pet, coach, last, nops>>

\* where a handler continues after the wallet call it made returned
Return(p, status, bal) ==
    LET pr == procs[p] IN
    IF pr.ret = "return"
    THEN Respond(p, status, [balance |-> bal])
    ELSE /\ Goto(p, [pc |-> pr.ret, w |-> WalletRow(bal)])
         /\ last' = last

\* a credit that forgets the balance it read
creditBalanceLost(balance, amount) == amount

\* the new balance credit writes (line 102)
creditBalance(balance, amount) == balance + amount

\* credit, lines 93-115: insert the wallet row when none was found, write the
\* balance, append the ledger row, commit.  wallets.user_id is unique: the
\* insert fails when another transaction has inserted the row since the read.
credit_save(p) ==
    LET pr == procs[p]
        bal == creditBalance(pr.w.balance, pr.amount)
    IN
    /\ pr.pc = "credit_save"
    /\ IF ~pr.w.exists /\ wallets[pr.user].exists
       THEN /\ Respond(p, "Internal", << >>)
            /\ UNCHANGED db
       ELSE /\ wallets' = [wallets EXCEPT ![pr.user] = WalletRow(bal)]
            /\ ledger' = Append(ledger,
                                LedgerRow(pr.user, pr.amount, TxType(pr), Desc(pr)))
            /\ Return(p, "ok", bal)
            /\ UNCHANGED <<inventory, userMissions, expenses, savings, goals>>
    /\ UNCHANGED <<mission, clock, pet, coach, nops>>

\* Debit(userId, amount) called directly
debit_call(p, limit) ==
    \E u \in Users, a \in 0..MaxAmount :
        /\ Arrive(p, limit)
        /\ IF debitRejects(a)
           THEN Reject(p, limit, "InvalidAmount",
                       [op |-> "debit", user |-> u, amount |-> a])
           ELSE Call(p, limit, [op |-> "debit", user |-> u, pc |-> "debit_find",
                                amount |-> a, ret |-> "return"])
        /\ UNCHANGED <<db, mission, clock, pet, coach>>

\* debit, lines 145-159: manager.findOne(Wallet, {userId}), NotFound when
\* there is no row, the balance check
debit_find(p) ==
    LET pr == procs[p]
        wallet == wallets[pr.user]
    IN
    /\ pr.pc = "debit_find"
    /\ IF ~wallet.exists
       THEN Respond(p, "NotFound", << >>)
       ELSE IF insufficient(wallet.balance, pr.amount)
       THEN Respond(p, "InsufficientFunds", << >>)
       ELSE /\ Goto(p, [pc |-> "debit_save", w |-> wallet])
            /\ last' = last
    /\ UNCHANGED <<db, mission, clock, pet, coach, nops>>

\* the new balance debit writes (line 162)
debitBalance(currentBalance, amount) == currentBalance - amount

\* debit, lines 161-175: write the balance, append the ledger row with the
\* negated amount, commit
debit_save(p) ==
    LET pr == procs[p]
        bal == debitBalance(pr.w.balance, pr.amount)
    IN
    /\ pr.pc = "debit_save"
    /\ wallets' = [wallets EXCEPT ![pr.user] = WalletRow(bal)]
    /\ ledger' = Append(ledger, LedgerRow(pr.user, -pr.amount, TxType(pr), Desc(pr)))
    /\ Return(p, "ok", bal)
    /\ UNCHANGED <<inventory, userMissions, expenses, savings, goals, mission, clock, pet, coach, nops>>

\* -------------------------------------------------------------------- shop
\* manager.findOne(UserInventory, {userId, itemType, itemId}): the first row
FindInventory(u, t, i) ==
    LET hits == {k \in 1..Len(inventory) :
                    /\ (u = Undefined \/ inventory[k].userId = u)
                    /\ inventory[k].itemType = t
                    /\ inventory[k].itemId = i}
    IN IF hits = {} THEN NoRow ELSE CHOOSE k \in hits : \A j \in hits : k <= j

\* a purchase that leaves out the debit of an item that costs nothing
purchaseItem_free(p, limit) ==
    \E u \in Users, i \in Items \cup {"unknown"} :
        /\ Arrive(p, limit)
        /\ IF i \notin Items
           THEN Reject(p, limit, "NotFound",
                       [op |-> "purchaseItem", user |-> u, item |-> i])
           ELSE Call(p, limit, [op |-> "purchaseItem", user |-> u, item |-> i,
                                pc |-> IF Price(i) = 0 THEN "purchase_find"
                                       ELSE "debit_find",
                                amount |-> Price(i), ret |-> "purchase_find"])
        /\ UNCHANGED <<db, mission, clock, pet, coach>>

\* ShopService.purchaseItem, lines 238-275: the catalog lookup (NotFound for an
\* unknown id), then inside the purchase transaction the call of
\* walletService.debit(userId, price, 'shop_purchase', ...)
purchaseItem_call(p, limit) ==
    \E u \in Users, i \in Items \cup {"unknown"} :
        /\ Arrive(p, limit)
        /\ IF i \notin Items
           THEN Reject(p, limit, "NotFound",
                       [op |-> "purchaseItem", user |-> u, item |-> i])
           ELSE IF debitRejects(Price(i))
           THEN Reject(p, limit, "InvalidAmount",
                       [op |-> "purchaseItem", user |-> u, item |-> i])
           ELSE Call(p, limit, [op |-> "purchaseItem", user |-> u, item |-> i,
                                pc |-> "debit_find", amount |-> Price(i),
                                ret |-> "purchase_find"])
        /\ UNCHANGED <<db, mission, clock, pet, coach>>

\* purchaseItem, lines 278-284: look for the inventory row
purchase_find(p) ==
    LET pr == procs[p]
        row == FindInventory(pr.user, ItemType(pr.item), pr.item)
    IN
    /\ pr.pc = "purchase_find"
    /\ Goto(p, [pc |-> "purchase_save", row |-> row,
                quantity |-> IF row = NoRow THEN 0 ELSE inventory[row].quantity])
    /\ UNCHANGED <<db, mission, clock, pet, coach, last, nops>>

\* an upsert that also stacks a character the user already owns
upsertInventoryStack(inv, u, item, row, quantity) ==
    IF row # NoRow
    THEN [inv EXCEPT ![row].quantity = quantity + 1]
    ELSE Append(inv, [userId |-> u, itemType |-> ItemType(item), itemId |-> item,
                      quantity |-> 1])

\* the inventory table after the upsert of lines 286-303; quantity is the
\* quantity the row had when it was read
upsertInventory(inv, u, item, row, quantity) ==
    IF row # NoRow
    THEN IF ItemType(item) = "food"
         THEN [inv EXCEPT ![row].quantity = quantity + 1]
         ELSE inv
    ELSE Append(inv, [userId |-> u, itemType |-> ItemType(item), itemId |-> item,
                      quantity |-> 1])

\* purchaseItem, lines 286-313: upsert the inventory row, read the balance
\* with walletService.getBalance, commit the purchase transaction
purchase_save(p) ==
    LET pr == procs[p] IN
    /\ pr.pc = "purchase_save"
    /\ inventory' = upsertInventory(inventory, pr.user, pr.item, pr.row, pr.quantity)
    /\ Respond(p, "ok", [balance |-> wallets[pr.user].balance])
    /\ UNCHANGED <<wallets, ledger, userMissions, expenses, savings, goals,
                   mission, clock, pet, coach, nops>>

\* ---------------------------------------------------------------- missions
\* MissionService.calculateProgress, lines 469-502
calculateProgress(m, expenseCount, savingCount) ==
    IF m.missionType = "log_expenses"
    THEN LET required == IF Req(m, "expenseCount") = 0 THEN 1
                         ELSE Req(m, "expenseCount")
         IN Min100(<<expenseCount * 100, required>>)
    ELSE IF m.missionType = "log_savings"
    THEN LET required == IF Req(m, "savingCount") = 0 THEN 1
                         ELSE Req(m, "savingCount")
         IN Min100(<<savingCount * 100, required>>)
    ELSE IF m.missionType = "combined"
    THEN LET expenseRequired == Req(m, "expenseCount")
             savingRequired == Req(m, "savingCount")
             \* Math.min(1, current / required), or 1 when nothing is required
             e == IF expenseRequired > 0
                  THEN <<Min(expenseCount, expenseRequired), expenseRequired>>
                  ELSE <<1, 1>>
             g == IF savingRequired > 0
                  THEN <<Min(savingCount, savingRequired), savingRequired>>
                  ELSE <<1, 1>>
         IN Min100(<<(e[1] * g[2] + g[1] * e[2]) * 100, 2 * e[2] * g[2]>>)
    ELSE Zero

\* findOne(UserMission, {userId, missionId}): the first row
FindUserMission(u, m) ==
    LET hits == {k \in 1..Len(userMissions) :
                    /\ userMissions[k].userId = u
                    /\ userMissions[k].missionId = m.id}
    IN IF hits = {} THEN NoRow ELSE CHOOSE k \in hits : \A j \in hits : k <= j

NewUserMission(u, m) ==
    [userId |-> u, missionId |-> m.id, expenseCount |-> 0, savingCount |-> 0,
     completed |-> FALSE, completedAt |-> FALSE]

\* MissionService.getTodaysMission, lines 226-266: today's mission (NotFound
\* when there is none) and the user's row for it
getTodaysMission_call(p, limit) ==
    \E u \in Users :
        LET row == FindUserMission(u, mission) IN
        /\ Arrive(p, limit)
        /\ IF mission = NoMission
           THEN Reject(p, limit, "NoActiveMission",
                       [op |-> "getTodaysMission", user |-> u])
           ELSE IF row # NoRow
           THEN Reject(p, limit, "ok",
                       [op |-> "getTodaysMission", user |-> u,
                        completed |-> userMissions[row].completed,
                        pct |-> calculateProgress(mission,
                                   userMissions[row].expenseCount,
                                   userMissions[row].savingCount)])
           ELSE Call(p, limit, [op |-> "getTodaysMission", user |-> u,
                                pc |-> "todays_insert"])
        /\ UNCHANGED <<db, mission, clock, pet, coach>>

\* getTodaysMission, lines 246-278: insert the row, read it back, answer
todays_insert(p) ==
    LET pr == procs[p]
        rows == Append(userMissions, NewUserMission(pr.user, mission))
        row == IF FindUserMission(pr.user, mission) = NoRow THEN Len(rows)
               ELSE FindUserMission(pr.user, mission)
    IN
    /\ pr.pc = "todays_insert"
    /\ userMissions' = rows
    /\ Respond(p, "ok", [completed |-> rows[row].completed,
                         pct |-> calculateProgress(mission, rows[row].expenseCount,
                                                   rows[row].savingCount)])
    /\ UNCHANGED <<wallets, ledger, inventory, expenses, savings, goals,
                   mission, clock, pet, coach, nops>>

\* MissionService.logExpense lines 303-305 / logSaving lines 353-355
logRejects(amount) == amount <= 0

log_call(p, limit) ==
    \E u \in Users, a \in 0..1, op \in {"logExpense", "logSaving"} :
        /\ Arrive(p, limit)
        /\ IF logRejects(a)
           THEN Reject(p, limit, "InvalidAmount",
                       [op |-> op, user |-> u, amount |-> a])
           ELSE Call(p, limit, [op |-> op, user |-> u, amount |-> a,
                                pc |-> "log_progress"])
        /\ UNCHANGED <<db, mission, clock, pet, coach>>

\* a logger that keeps no activity row
LogActivityDropped(pr) ==
    /\ expenses' = expenses
    /\ savings' = savings

\* the activity row is appended to expenses or savings at the commit
LogActivity(pr) ==
    /\ expenses' = IF pr.op = "logExpense" THEN Append(expenses, pr.amount)
                   ELSE expenses
    /\ savings' = IF pr.op = "logSaving" THEN Append(savings, pr.amount)
                  ELSE savings

\* a completion test that forgets the completed flag
completesAgain(pct, completed) == PctGe100(pct)

\* updateMissionProgress, line 441: the completion transition
completes(pct, completed) == PctGe100(pct) /\ ~completed

\* logExpense lines 309-322 with updateMissionProgress lines 397-452: the
\* activity row is saved (uncommitted), today's mission and the user's row are
\* read, the counter is incremented and the percentage computed.  With no
\* mission the transaction commits at once.  On the completion transition
\* walletService.credit is called.
log_progress(p) ==
    LET pr == procs[p]
        row == FindUserMission(pr.user, mission)
        um0 == IF row = NoRow THEN NewUserMission(pr.user, mission)
               ELSE userMissions[row]
        um1 == IF pr.op = "logExpense"
               THEN [um0 EXCEPT !.expenseCount = @ + 1]
               ELSE [um0 EXCEPT !.savingCount = @ + 1]
        pct == calculateProgress(mission, um1.expenseCount, um1.savingCount)
        um2 == IF completes(pct, um1.completed)
               THEN [um1 EXCEPT !.completed = TRUE, !.completedAt = TRUE]
               ELSE um1
        um == [idx |-> row, expenseCount |-> um2.expenseCount,
               savingCount |-> um2.savingCount, completed |-> um2.completed,
               completedAt |-> um2.completedAt]
    IN
    /\ pr.pc = "log_progress"
    /\ IF mission = NoMission
       THEN /\ LogActivity(pr)
            /\ Respond(p, "ok", [pct |-> Zero, completed |-> FALSE])
       ELSE /\ UNCHANGED <<expenses, savings>>
            /\ IF completes(pct, um1.completed)
               THEN IF creditRejects(mission.rewardCoins)
                    THEN Respond(p, "InvalidAmount", << >>)
                    ELSE /\ Goto(p, [pc |-> "credit_find", ret |-> "log_save",
                                     amount |-> mission.rewardCoins,
                                     um |-> um, pct |-> pct])
                         /\ last' = last
               ELSE /\ Goto(p, [pc |-> "log_save", um |-> um, pct |-> pct])
                    /\ last' = last
    /\ UNCHANGED <<wallets, ledger, inventory, userMissions, goals, mission, clock, pet, coach, nops>>

\* manager.save(userMission), line 454: INSERT when the entity was created
\* here, else UPDATE of the row by id with the values held in memory
saveUserMission(rows, u, um) ==
    LET row == [userId |-> u, missionId |-> mission.id,
                expenseCount |-> um.expenseCount, savingCount |-> um.savingCount,
                completed |-> um.completed, completedAt |-> um.completedAt]
    IN IF um.idx = NoRow THEN Append(rows, row) ELSE [rows EXCEPT ![um.idx] = row]

\* updateMissionProgress lines 454-459 and the commit of logExpense/logSaving
log_save(p) ==
    LET pr == procs[p] IN
    /\ pr.pc = "log_save"
    /\ userMissions' = saveUserMission(userMissions, pr.user, pr.um)
    /\ LogActivity(pr)
    /\ Respond(p, "ok", [pct |-> pr.pct, completed |-> pr.um.completed])
    /\ UNCHANGED <<wallets, ledger, inventory, goals, mission, clock, pet, coach, nops>>

\* ------------------------------------------------------------------- goals
GoalAmounts == {0, GoalStep, 2 * GoalStep}

\* GoalService.createGoal, lines 46-59
createGoal(p, limit) ==
    \E u \in Users, t \in GoalAmounts :
        /\ Arrive(p, limit)
        /\ Len(goals) < MaxGoals
        /\ IF t <= 0
           THEN /\ Reject(p, limit, "InvalidAmount",
                          [op |-> "createGoal", user |-> u, amount |-> t])
                /\ goals' = goals
           ELSE /\ goals' = Append(goals, [userId |-> u, targetAmount |-> t,
                                           currentAmount |-> 0, completed |-> FALSE,
                                           completedAt |-> FALSE, deleted |-> FALSE])
                /\ Reject(p, limit, "ok",
                          [op |-> "createGoal", user |-> u, amount |-> t,
                           goal |-> Len(goals) + 1])
        /\ UNCHANGED <<wallets, ledger, inventory, userMissions, expenses, savings,
                       mission, clock, pet, coach>>

\* findOne(Goal, {id, userId}) finds a row
FindGoal(g, u) == g <= Len(goals) /\ ~goals[g].deleted /\ goals[g].userId = u

\* GoalService.deleteGoal, lines 227-230: getGoal (NotFound), then remove
deleteGoal(p, limit) ==
    \E u \in Users, g \in 1..MaxGoals :
        /\ Arrive(p, limit)
        /\ IF FindGoal(g, u)
           THEN /\ goals' = [goals EXCEPT ![g].deleted = TRUE]
                /\ Reject(p, limit, "ok", [op |-> "deleteGoal", user |-> u, goal |-> g])
           ELSE /\ goals' = goals
                /\ Reject(p, limit, "NotFound",
                          [op |-> "deleteGoal", user |-> u, goal |-> g])
        /\ UNCHANGED <<wallets, ledger, inventory, userMissions, expenses, savings,
                       mission, clock, pet, coach>>

\* GoalService.calculateProgress, lines 212-218
goalProgress(currentAmount, targetAmount) ==
    IF targetAmount <= 0 THEN Zero ELSE Min100(<<currentAmount * 100, targetAmount>>)

\* Math.floor(targetAmount * 0.1), line 182
goalBonus(targetAmount) == targetAmount \div 10

\* addProgress, line 177
goalCompletes(currentAmount, targetAmount, completed) ==
    currentAmount >= targetAmount /\ ~completed

\* GoalService.addProgress, lines 150-152
addProgress_call(p, limit) ==
    \E u \in Users, g \in 1..MaxGoals, a \in GoalAmounts :
        /\ Arrive(p, limit)
        /\ IF a <= 0
           THEN Reject(p, limit, "InvalidAmount",
                       [op |-> "addProgress", user |-> u, goal |-> g, amount |-> a])
           ELSE Call(p, limit, [op |-> "addProgress", user |-> u, goal |-> g,
                                amount |-> a, pc |-> "progress_find"])
        /\ UNCHANGED <<db, mission, clock, pet, coach>>

\* addProgress, lines 156-191: read the goal (NotFound, AlreadyCompleted), add
\* the amount, and on completion call walletService.credit with the bonus
progress_find(p) ==
    LET pr == procs[p]
        found == FindGoal(pr.goal, pr.user)
        goal == goals[pr.goal]
        currentAmount == goal.currentAmount + pr.amount
        done == goalCompletes(currentAmount, goal.targetAmount, goal.completed)
        gl == [currentAmount |-> currentAmount,
               completed |-> goal.completed \/ done,
               completedAt |-> goal.completedAt \/ done]
        pct == goalProgress(currentAmount, goal.targetAmount)
    IN
    /\ pr.pc = "progress_find"
    /\ IF ~found THEN Respond(p, "NotFound", << >>)
       ELSE IF goal.completed THEN Respond(p, "AlreadyCompleted", << >>)
       ELSE IF done
       THEN IF creditRejects(goalBonus(goal.targetAmount))
            THEN Respond(p, "InvalidAmount", << >>)
            ELSE /\ Goto(p, [pc |-> "credit_find", ret |-> "progress_save",
                             amount |-> goalBonus(goal.targetAmount),
                             bonus |-> goalBonus(goal.targetAmount),
                             gl |-> gl, pct |-> pct])
                 /\ last' = last
       ELSE /\ Goto(p, [pc |-> "progress_save", gl |-> gl, pct |-> pct])
            /\ last' = last
    /\ UNCHANGED <<db, mission, clock, pet, coach, nops>>

\* a save that forgets the completion time
saveGoalNoStamp(rows, g, gl) ==
    [rows EXCEPT ![g].currentAmount = gl.currentAmount,
                 ![g].completed = gl.completed,
                 ![g].deleted = FALSE]

\* manager.save(goal), line 193: the row gets the values held in memory; a
\* row removed since it was read is inserted again
saveGoal(rows, g, gl) ==
    [rows EXCEPT ![g].currentAmount = gl.currentAmount,
                 ![g].completed = gl.completed,
                 ![g].completedAt = gl.completedAt,
                 ![g].deleted = FALSE]

\* addProgress, lines 193-201: manager.save(goal) and the commit
progress_save(p) ==
    LET pr == procs[p] IN
    /\ pr.pc = "progress_save"
    /\ goals' = saveGoal(goals, pr.goal, pr.gl)
    /\ Respond(p, "ok", [balance |-> pr.gl.currentAmount, pct |-> pr.pct,
                         completed |-> pr.gl.completed, bonus |-> pr.bonus])
    /\ UNCHANGED <<wallets, ledger, inventory, userMissions, expenses, savings,
                   mission, clock, pet, coach, nops>>

\* -------------------------------------------------------------- adventures
\* requests started in one behaviour of the adventure specifications
MaxAdvOps == 4
\* the AI service returns between 1 and MaxChoices choices
MaxChoices == 2

\* a nullable column holding null
Null == -1
\* the metrics of the interface Scores of the AI client, part_013 lines 35-39
ClientMetrics == {"financial_wisdom", "long_term_thinking", "responsibility"}
\* the metrics the AI service emits (README of the service, the response of
\* POST /api/adventure/evaluate)
ServiceMetrics == {"age_appropriateness", "goal_alignment", "financial_reasoning"}
\* a score is a float in [0, 1]; the two ends stand for the range
ScoreValues == {0, 1}
\* the scores maps an evaluate response can carry: the service's metrics, or
\* the ones the client's interface declares
EvaluateScores ==
    {[m \in names |-> v] : names \in {ClientMetrics, ServiceMetrics}, v \in ScoreValues}

\* AIServiceClient: AI_SERVICE_MAX_RETRIES defaults to 3
maxRetries == 3
\* AIServiceClient: AI_SERVICE_RETRY_DELAY defaults to 1000 ms
retryDelay == 1000

\* ProfileService.giveStarterFood: 10 apples
StarterApples == 10

AdvArrive(p, limit) ==
    /\ procs[p].pc = "idle"
    /\ \A q \in Procs : procs[q].pc = "idle" => p <= q
    /\ nops < MaxAdvOps
    /\ Cardinality(InFlight) < limit
    /\ nops' = nops + 1

\* ProfileService.giveStarterFood, lines 76-108: add 10 apples to the user's
\* inventory row, inserting the row when there is none
giveStarterFood(inv, u) ==
    LET row == FindInventory(u, "food", "apple") IN
    IF row # NoRow
    THEN [inv EXCEPT ![row].quantity = @ + StarterApples]
    ELSE Append(inv, [userId |-> u, itemType |-> "food", itemId |-> "apple",
                      quantity |-> StarterApples])

\* ProfileService.createProfile, lines 39-67: Conflict when the user has a
\* profile, else insert it and give the starter food
createProfileOf(p, limit, principal, u) ==
    LET fields == [op |-> "createProfile", user |-> u, principal |-> principal] IN
    /\ AdvArrive(p, limit)
    /\ IF profiles[u]
       THEN /\ Reject(p, limit, "Conflict", fields)
            /\ UNCHANGED <<profiles, onboarding, inventory>>
       ELSE /\ profiles' = [profiles EXCEPT ![u] = TRUE]
            /\ onboarding' = [onboarding EXCEPT ![u] = FALSE]
            /\ inventory' = giveStarterFood(inventory, u)
            /\ Reject(p, limit, "ok", fields)
    /\ UNCHANGED <<wallets, ledger, userMissions, expenses, savings, goals,
                   mission, clock, tamagotchis, foods, adventures, aiCalls>>

createProfile(p, limit) == \E u \in Users : createProfileOf(p, limit, u, u)

\* what a request sent by this.client.post gives: a response, or an axios
\* error with a 5xx, a 429 or a 4xx response or with no response (status 0)
NoError == [axios |-> FALSE, status |-> 200, request |-> TRUE]
AIErrors == {[axios |-> TRUE, status |-> st, request |-> TRUE] : st \in {0, 500, 429, 400}}
AIOutcomes == {NoError} \cup AIErrors
\* the axios error this.client.post raises before a request is made: it has
\* neither a response nor a request
SetupError == [axios |-> TRUE, status |-> 0, request |-> FALSE]

\* AIServiceClient.handleError, lines 209-234: an axios error with a response
\* or a request is replaced by a plain Error; any other error is thrown again
handleError(error) ==
    IF error.axios /\ (error.status # 0 \/ error.request)
    THEN [axios |-> FALSE, status |-> 0, request |-> FALSE]
    ELSE error

\* AIServiceClient.isRetryableError, lines 185-200
isRetryableError(error) ==
    error.axios /\ (error.status = 0 \/ error.status >= 500 \/ error.status = 429)

\* a delay that grows by retryDelay with every attempt
backoffLinear(attempt) == retryDelay * (attempt + 1)

\* retryWithBackoff, line 157: the delay before the next attempt
backoff(attempt) == retryDelay * 2 ^ attempt

\* one attempt of AIServiceClient.retryWithBackoff, lines 147-177, around
\* generateAdventure / evaluateChoice: the POST, and on an error either the
\* next attempt, after this.sleep(delay), or ServiceUnavailable.  received and
\* slept are history variables: the statuses the attempts of this call ended
\* with (0 without a response) and the delays slept between them.
Attempt(p, next, response, outcomes) ==
    LET pr == procs[p] IN
    \E outcome \in outcomes :
        LET received == Append(pr.received, outcome.status) IN
        /\ aiCalls' = IF outcome.request THEN aiCalls + 1 ELSE aiCalls
        /\ IF outcome = NoError
           THEN /\ Goto(p, [pc |-> next, response |-> response, received |-> received])
                /\ last' = last
           ELSE IF pr.attempt < maxRetries /\ isRetryableError(handleError(outcome))
           THEN /\ Goto(p, [attempt |-> pr.attempt + 1, received |-> received,
                            slept |-> Append(pr.slept, backoff(pr.attempt))])
                /\ last' = last
           ELSE Respond(p, "ServiceUnavailable", [received |-> received])

\* an attempt whose request is sent
AICall(p, next, response) == Attempt(p, next, response, AIOutcomes)

\* an attempt in which this.client.post fails before a request is made
post_throws(p) ==
    /\ procs[p].pc \in {"generate_ai", "submit_ai"}
    /\ Attempt(p, procs[p].pc, procs[p].response, {SetupError})
    /\ UNCHANGED <<db, mission, clock, pet, adventures, profiles, nops>>

\* AdventureService.generateAdventure, lines 45-76: the profile (NotFound when
\* there is none) and the goals are read
generateAdventure_call(p, limit) ==
    \E u \in Users :
        /\ AdvArrive(p, limit)
        /\ IF ~profiles[u]
           THEN Reject(p, limit, "NotFound", [op |-> "generateAdventure", user |-> u])
           ELSE Call(p, limit, [op |-> "generateAdventure", user |-> u,
                                pc |-> "generate_ai"])
        /\ UNCHANGED <<db, mission, clock, pet, coach>>

\* generateAdventure, lines 79-83: aiServiceClient.generateAdventure
generate_ai(p) ==
    /\ procs[p].pc = "generate_ai"
    /\ \E n \in 1..MaxChoices :
           AICall(p, "generate_save", [choices |-> n, opik_trace_id |-> aiCalls + 1,
                                       scores |-> NullScores])
    /\ UNCHANGED <<db, mission, clock, pet, adventures, profiles, nops>>

\* a row built without the trace id of the generation
NewAdventureNoTrace(u, response) ==
    [userId |-> u, scenario |-> response.opik_trace_id, choices |-> response.choices,
     generationOpikTraceId |-> Null,
     selectedChoiceIndex |-> Null, feedback |-> Null, scores |-> NullScores,
     evaluationOpikTraceId |-> Null, evaluatedAt |-> Null]

\* the row adventureRepository.create builds, lines 86-96; the scenario and
\* the trace id are named by the AI response they came with
NewAdventure(u, response) ==
    [userId |-> u, scenario |-> response.opik_trace_id, choices |-> response.choices,
     generationOpikTraceId |-> response.opik_trace_id,
     selectedChoiceIndex |-> Null, feedback |-> Null, scores |-> NullScores,
     evaluationOpikTraceId |-> Null, evaluatedAt |-> Null]

\* generateAdventure, lines 86-104: insert the adventure
generate_save(p) ==
    LET pr == procs[p] IN
    /\ pr.pc = "generate_save"
    /\ adventures' = Append(adventures, NewAdventure(pr.user, pr.response))
    /\ Respond(p, "ok", [adventure |-> Len(adventures) + 1])
    /\ UNCHANGED <<db, mission, clock, pet, profiles, aiCalls, nops>>

\* findOne(Adventure, {id, userId}) finds a row
FindAdventure(a, u) == a <= Len(adventures) /\ adventures[a].userId = u

\* a test of the stored index for truthiness: index 0 reads as not submitted
alreadySubmittedTruthy(adventure) == adventure.selectedChoiceIndex > 0

\* submitChoice, lines 140-142
alreadySubmitted(adventure) == adventure.selectedChoiceIndex # Null

\* a range check that lets the index len(choices) through
invalidChoiceOffByOne(choiceIndex, choices) == choiceIndex < 0 \/ choiceIndex > choices

\* submitChoice, lines 145-149
invalidChoice(choiceIndex, choices) == choiceIndex < 0 \/ choiceIndex >= choices

\* AdventureService.submitChoice, lines 122-160: read the adventure (NotFound),
\* AlreadySubmitted, InvalidChoice, read the profile (NotFound)
submitChoice_call(p, limit) ==
    \E u \in Users, a \in 1..MaxAdvOps, c \in -1..MaxChoices :
        LET fields == [op |-> "submitChoice", user |-> u, adventure |-> a,
                       choiceIndex |-> c]
        IN
        /\ AdvArrive(p, limit)
        /\ IF ~FindAdventure(a, u) THEN Reject(p, limit, "NotFound", fields)
           ELSE IF alreadySubmitted(adventures[a])
           THEN Reject(p, limit, "AlreadySubmitted", fields)
           ELSE IF invalidChoice(c, adventures[a].choices)
           THEN Reject(p, limit, "InvalidChoice", fields)
           ELSE IF ~profiles[u] THEN Reject(p, limit, "NotFound", fields)
           ELSE Call(p, limit, [op |-> "submitChoice", user |-> u, adventure |-> a,
                                choiceIndex |-> c, pc |-> "submit_ai"])
        /\ UNCHANGED <<db, mission, clock, pet, coach>>

\* an evaluation step that stores the choice before the AI has answered
submit_ai_choice_first(p) ==
    LET pr == procs[p] IN
    /\ pr.pc = "submit_ai"
    /\ adventures' = [adventures EXCEPT
                          ![pr.adventure].selectedChoiceIndex = pr.choiceIndex]
    /\ \E scores \in EvaluateScores :
           AICall(p, "submit_save", [choices |-> 0, opik_trace_id |-> aiCalls + 1,
                                     scores |-> scores])
    /\ UNCHANGED <<db, mission, clock, pet, profiles, nops>>

\* submitChoice, lines 163-168: aiServiceClient.evaluateChoice
submit_ai(p) ==
    /\ procs[p].pc = "submit_ai"
    /\ \E scores \in EvaluateScores :
           AICall(p, "submit_save", [choices |-> 0, opik_trace_id |-> aiCalls + 1,
                                     scores |-> scores])
    /\ UNCHANGED <<db, mission, clock, pet, adventures, profiles, nops>>

\* submitChoice, lines 174-178: the object literal reads the three metrics of
\* the client's interface from response.scores; one the response does not
\* carry reads as undefined, and the jsonb column drops an undefined property
storedScores(scores) == [m \in ClientMetrics \cap DOMAIN scores |-> scores[m]]

\* an update that leaves the trace id of the evaluation out
evaluatedNoTrace(adventure, choiceIndex, response) ==
    [adventure EXCEPT !.selectedChoiceIndex = choiceIndex,
                      !.feedback = response.opik_trace_id,
                      !.scores = storedScores(response.scores),
                      !.evaluatedAt = 1]

\* submitChoice, lines 171-180: the evaluation written into the entity
evaluated(adventure, choiceIndex, response) ==
    [adventure EXCEPT !.selectedChoiceIndex = choiceIndex,
                      !.feedback = response.opik_trace_id,
                      !.scores = storedScores(response.scores),
                      !.evaluationOpikTraceId = response.opik_trace_id,
                      !.evaluatedAt = 1]

\* submitChoice, lines 182-188: adventureRepository.save(adventure)
submit_save(p) ==
    LET pr == procs[p] IN
    /\ pr.pc = "submit_save"
    /\ adventures' = [adventures EXCEPT ![pr.adventure] =
                          evaluated(@, pr.choiceIndex, pr.response)]
    /\ Respond(p, "ok", << >>)
    /\ UNCHANGED <<db, mission, clock, pet, profiles, aiCalls, nops>>

\* -------------------------------------------------------------- tamagotchi
\* requests started in one behaviour of the tamagotchi specifications
MaxPetOps == 4

\* SeedController.seedFoods: the foods row named Apple
SeedFoods == [apple |-> 10]
\* the nutrition_value a foods row can hold: an integer >= 1 (Food entity,
\* @Min(1)); 10 and 30 are seeded values
NutritionValues == {1, 2, 10, 30}
FoodIds == {"apple"}
\* seedCharacters: a starter character and one that is not
CharacterIds == {"foxy", "dragon"}
isStarter(c) == c = "foxy"

PetArrive(p, limit) ==
    /\ procs[p].pc = "idle"
    /\ \A q \in Procs : procs[q].pc = "idle" => p <= q
    /\ nops < MaxPetOps
    /\ Cardinality(InFlight) < limit
    /\ nops' = nops + 1

\* the rows findOne(Tamagotchi, {where: {userId}}) can return; a where
\* property that is undefined is left out of the query
FindTamagotchis(userId) ==
    {k \in 1..Len(tamagotchis) : userId = Undefined \/ tamagotchis[k].userId = userId}

\* the row tamagotchiRepository.create builds, part_011 lines 235-243
NewTamagotchi(userId) ==
    [userId |-> userId, hunger |-> 50, happiness |-> 50, health |-> 100,
     lastFedAt |-> Null]

\* CharacterService.chooseStarterCharacter, part_011 lines 209-233: the
\* character is read (NotFound, not a starter), then the user's tamagotchi
\* (Conflict)
chooseStarterCharacter_call(p, limit, principal, userId, characterId) ==
    LET fields == [op |-> "chooseCharacter", user |-> userId, principal |-> principal,
                   item |-> characterId]
    IN
    /\ PetArrive(p, limit)
    /\ IF characterId \notin CharacterIds THEN Reject(p, limit, "NotFound", fields)
       ELSE IF ~isStarter(characterId) THEN Reject(p, limit, "InvalidStarter", fields)
       ELSE IF FindTamagotchis(userId) # {} THEN Reject(p, limit, "Conflict", fields)
       ELSE Call(p, limit, [op |-> "chooseCharacter", user |-> userId,
                            principal |-> principal, item |-> characterId,
                            pc |-> "choose_insert"])
    /\ UNCHANGED <<db, mission, clock, coach, pet>>

\* chooseStarterCharacter, lines 235-246: tamagotchiRepository.save inserts the
\* row; the controller goes on to updateOnboardingStatus
choose_insert(p) ==
    LET pr == procs[p] IN
    /\ pr.pc = "choose_insert"
    /\ tamagotchis' = Append(tamagotchis, NewTamagotchi(pr.user))
    /\ Goto(p, [pc |-> "onboarding_find"])
    /\ last' = last
    /\ UNCHANGED <<db, mission, clock, coach, onboarding, foods, nops>>

\* ProfileController.chooseCharacter, part_011 line 141, and
\* ProfileService.updateOnboardingStatus, line 156: getProfileByUserId
\* (NotFound when the user has no profile)
onboarding_find(p) ==
    LET pr == procs[p] IN
    /\ pr.pc = "onboarding_find"
    /\ IF ~profiles[pr.user] THEN Respond(p, "NotFound", << >>)
       ELSE /\ Goto(p, [pc |-> "onboarding_save"])
            /\ last' = last
    /\ UNCHANGED <<db, mission, clock, coach, pet, nops>>

\* updateOnboardingStatus, lines 157-158: the flag is set and the profile saved
onboarding_save(p) ==
    LET pr == procs[p] IN
    /\ pr.pc = "onboarding_save"
    /\ onboarding' = [onboarding EXCEPT ![pr.user] = TRUE]
    /\ Respond(p, "ok", << >>)
    /\ UNCHANGED <<db, mission, clock, coach, tamagotchis, foods, nops>>

\* TamagotchiService.feedTamagotchi, lines 74 and 39-48: getTamagotchi
\* (NotFound); the entity is kept in memory
feedTamagotchi_call(p, limit, principal, userId, foodId) ==
    LET fields == [op |-> "feed", user |-> userId, principal |-> principal,
                   item |-> foodId]
    IN
    /\ PetArrive(p, limit)
    /\ IF FindTamagotchis(userId) = {} THEN Reject(p, limit, "NotFound", fields)
       ELSE \E k \in FindTamagotchis(userId) :
                Call(p, limit, [op |-> "feed", user |-> userId, principal |-> principal,
                                item |-> foodId, pc |-> "feed_owns",
                                tg |-> [idx |-> k, hunger |-> tamagotchis[k].hunger,
                                        happiness |-> tamagotchis[k].happiness,
                                        health |-> tamagotchis[k].health]])
    /\ UNCHANGED <<db, mission, clock, coach, pet>>

\* ShopService.userOwnsItem, purchase-item.dto.ts lines 336-350
userOwnsItem(userId, itemId, itemType) ==
    LET row == FindInventory(userId, itemType, itemId) IN
    row # NoRow /\ inventory[row].quantity > 0

\* feedTamagotchi, lines 77-96: the food is read (NotFound) and the ownership
\* checked (Forbidden)
feed_owns(p) ==
    LET pr == procs[p] IN
    /\ pr.pc = "feed_owns"
    /\ IF pr.item \notin FoodIds THEN Respond(p, "NotFound", << >>)
       ELSE IF ~userOwnsItem(pr.user, pr.item, "food") THEN Respond(p, "Forbidden", << >>)
       ELSE /\ Goto(p, [pc |-> "feed_save"])
            /\ last' = last
    /\ UNCHANGED <<db, mission, clock, coach, pet, nops>>

Max(a, b) == IF a >= b THEN a ELSE b

\* a feed that does not stop the hunger at 0
fedUnclamped(tg, nutritionValue) ==
    LET hunger == tg.hunger - nutritionValue
        happiness == Min(100, tg.happiness + (nutritionValue \div 2))
    IN [idx |-> tg.idx, hunger |-> hunger, happiness |-> happiness,
        health |-> IF hunger < 30 THEN Min(100, tg.health + 5) ELSE tg.health]

\* a feed that adds the whole nutrition value to the happiness
fedWholeNutrition(tg, nutritionValue) ==
    LET hunger == Max(0, tg.hunger - nutritionValue)
        happiness == Min(100, tg.happiness + nutritionValue)
    IN [idx |-> tg.idx, hunger |-> hunger, happiness |-> happiness,
        health |-> IF hunger < 30 THEN Min(100, tg.health + 5) ELSE tg.health]

\* a feed that gives a tamagotchi that is not hungry no happiness
fedFullNoJoy(tg, nutritionValue) ==
    LET hunger == Max(0, tg.hunger - nutritionValue)
        happiness == IF tg.hunger = 0 THEN tg.happiness
                     ELSE Min(100, tg.happiness + (nutritionValue \div 2))
    IN [idx |-> tg.idx, hunger |-> hunger, happiness |-> happiness,
        health |-> IF hunger < 30 THEN Min(100, tg.health + 5) ELSE tg.health]

\* feedTamagotchi, lines 100-113: the stats after the feed, computed on the
\* entity in memory
fed(tg, nutritionValue) ==
    LET hunger == Max(0, tg.hunger - nutritionValue)
        happiness == Min(100, tg.happiness + (nutritionValue \div 2))
    IN [idx |-> tg.idx, hunger |-> hunger, happiness |-> happiness,
        health |-> IF hunger < 30 THEN Min(100, tg.health + 5) ELSE tg.health]

\* the requests that have written a tamagotchi row inside a transaction that
\* is still open: they hold the lock of the row
HoldsRow(q, idx) ==
    /\ procs[q].pc \in {"feed_consume_find", "feed_consume_save", "feed_commit"}
    /\ procs[q].tg.idx = idx

\* feedTamagotchi, lines 99-119: the transaction starts, the stats are
\* computed and manager.save(tamagotchi) writes the row, waiting for the row
\* lock while another transaction holds it
feed_save(p) ==
    LET pr == procs[p] IN
    /\ pr.pc = "feed_save"
    /\ \A q \in Procs \ {p} : ~HoldsRow(q, pr.tg.idx)
    /\ Goto(p, [pc |-> "feed_consume_find", tg |-> fed(pr.tg, foods[pr.item])])
    /\ last' = last
    /\ UNCHANGED <<db, mission, clock, coach, pet, nops>>

\* ShopService.consumeItem, lines 369-385, called with quantity 1 on the
\* repository's own connection: the inventory row is read (NotFound,
\* insufficient quantity); a throw rolls the feed transaction back
feed_consume_find(p) ==
    LET pr == procs[p]
        row == FindInventory(pr.user, "food", pr.item)
    IN
    /\ pr.pc = "feed_consume_find"
    /\ IF row = NoRow THEN Respond(p, "NotFound", << >>)
       ELSE IF inventory[row].quantity < 1 THEN Respond(p, "InsufficientQuantity", << >>)
       ELSE /\ Goto(p, [pc |-> "feed_consume_save",
                        owner |-> inventory[row].userId,
                        quantity |-> inventory[row].quantity - 1])
            /\ last' = last
    /\ UNCHANGED <<db, mission, clock, coach, pet, nops>>

\* the inventory without the row of (u, food, item)
RemoveInventory(inv, u, item) ==
    SelectSeq(inv, LAMBDA r : ~(r.userId = u /\ r.itemType = "food" /\ r.itemId = item))

\* consumeItem, lines 387-394: remove(inventory) when the quantity reached 0,
\* else save(inventory), which writes the quantity held in memory and inserts
\* the row again when it has been removed meanwhile
consumeInventory(inv, u, item, quantity) ==
    LET row == FindInventory(u, "food", item) IN
    IF quantity = 0 THEN RemoveInventory(inv, u, item)
    ELSE IF row # NoRow THEN [inv EXCEPT ![row].quantity = quantity]
    ELSE Append(inv, [userId |-> u, itemType |-> "food", itemId |-> item,
                      quantity |-> quantity])

feed_consume_save(p) ==
    LET pr == procs[p] IN
    /\ pr.pc = "feed_consume_save"
    /\ inventory' = consumeInventory(inventory, pr.owner, pr.item, pr.quantity)
    /\ Goto(p, [pc |-> "feed_commit"])
    /\ last' = last
    /\ UNCHANGED <<wallets, ledger, userMissions, expenses, savings, goals,
                   mission, clock, coach, pet, nops>>

\* the tamagotchi row as the feed transaction writes it
saveTamagotchi(rows, tg) ==
    [rows EXCEPT ![tg.idx].hunger = tg.hunger, ![tg.idx].happiness = tg.happiness,
                 ![tg.idx].health = tg.health, ![tg.idx].lastFedAt = 1]

\* feedTamagotchi, lines 121-128: the transaction commits and the stats are
\* returned
feed_commit(p) ==
    LET pr == procs[p] IN
    /\ pr.pc = "feed_commit"
    /\ tamagotchis' = saveTamagotchi(tamagotchis, pr.tg)
    /\ Respond(p, "ok", [stats |-> [hunger |-> pr.tg.hunger,
                                    happiness |-> pr.tg.happiness,
                                    health |-> pr.tg.health]])
    /\ UNCHANGED <<db, mission, clock, coach, onboarding, foods, nops>>

\* the operations as the domain services offer them
ChooseStarterCharacter(p, limit) ==
    \E u \in Users, c \in CharacterIds \cup {"none"} :
        chooseStarterCharacter_call(p, limit, u, u, c)

Feed(p, limit) ==
    \E u \in Users, f \in FoodIds \cup {"none"} : feedTamagotchi_call(p, limit, u, u, f)

\* A database round trip fails (connection lost, statement or pool timeout):
\* the transaction the handler is in rolls back and the request fails.
\* Writes are applied at the commit, so nothing of that transaction is kept.
db_error(p) ==
    /\ procs[p].pc # "idle"
    /\ Respond(p, "Internal", << >>)
    /\ UNCHANGED <<db, mission, clock, pet, coach, nops>>

\* the tables after construction and seeding, and no request in flight
Store ==
    /\ wallets = [u \in Users |-> NoWallet]
    /\ ledger = << >>
    /\ inventory = << >>
    /\ userMissions = << >>
    /\ expenses = << >>
    /\ savings = << >>
    /\ goals = << >>
    /\ mission \in Missions \cup {NoMission}
    /\ procs = [p \in Procs |-> Idle]
    /\ last = NoResponse
    /\ nops = 0
    /\ adventures = << >>
    /\ profiles = [u \in Accounts |-> FALSE]
    /\ aiCalls = 0
    /\ tamagotchis = << >>
    /\ onboarding = [u \in Accounts |-> FALSE]
    /\ foods = SeedFoods

\* the state after construction, on a server that runs in UTC
Init == Store /\ clock = Epoch

\* the handlers' steps after the call
Step(p) ==
    \/ credit_find(p)
    \/ credit_save(p)
    \/ debit_find(p)
    \/ debit_save(p)
    \/ purchase_find(p)
    \/ purchase_save(p)
    \/ todays_insert(p)
    \/ log_progress(p)
    \/ log_save(p)
    \/ progress_find(p)
    \/ progress_save(p)

\* a request arrives while fewer than `limit` requests are in flight
Request(p, limit) ==
    \/ credit_call(p, limit)
    \/ debit_call(p, limit)
    \/ purchaseItem_call(p, limit)
    \/ getTodaysMission_call(p, limit)
    \/ log_call(p, limit)
    \/ createGoal(p, limit)
    \/ deleteGoal(p, limit)
    \/ addProgress_call(p, limit)

\* requests of one user served concurrently
Next == \E p \in Procs : Request(p, 2) \/ Step(p)

Spec == Init /\ [][Next]_vars

\* requests served concurrently, where a round trip may fail
NextFull == \E p \in Procs : Request(p, 2) \/ Step(p) \/ db_error(p)

FullSpec == Init /\ [][NextFull]_vars

\* requests served one at a time, every round trip succeeding
NextSeq == Request(1, 1) \/ Step(1)

SeqSpec == Init /\ [][NextSeq]_vars

\* requests served one at a time, where a round trip may fail
NextFault == Request(1, 1) \/ Step(1) \/ db_error(1)

FaultSpec == Init /\ [][NextFault]_vars

\* the adventure coach: the handlers' steps after the call
AdvStep(p) ==
    \/ generate_ai(p)
    \/ generate_save(p)
    \/ submit_ai(p)
    \/ submit_save(p)

AdvRequest(p, limit) ==
    \/ createProfile(p, limit)
    \/ generateAdventure_call(p, limit)
    \/ submitChoice_call(p, limit)

\* adventure requests served one at a time; the AI service may fail
NextAdv == AdvRequest(1, 1) \/ AdvStep(1)

AdvSpec == Init /\ [][NextAdv]_vars

\* adventure requests served concurrently; the AI service and the database
\* round trips may fail
NextAdvFull == \E p \in Procs : AdvRequest(p, 2) \/ AdvStep(p) \/ db_error(p)

AdvFullSpec == Init /\ [][NextAdvFull]_vars

\* requests started in one behaviour of the retry specification
MaxRetryOps == 3

\* adventure requests served one at a time; the AI service may fail, and so
\* may the client before it sends a request
NextRetry ==
    \/ nops < MaxRetryOps /\ AdvRequest(1, 1)
    \/ AdvStep(1)
    \/ post_throws(1)

RetrySpec == Init /\ [][NextRetry]_vars

\* ------------------------------------------- the tamagotchi specifications
\* the row SeedController.seedMissions inserts for feeding
CareMission == [id |-> "care", missionType |-> "tamagotchi_care",
                requirements |-> [feed_count |-> 1], rewardCoins |-> 5]

\* the state after construction, with the catalog rows the tables admit
PetInit ==
    /\ wallets = [u \in Users |-> NoWallet]
    /\ ledger = << >>
    /\ inventory = << >>
    /\ userMissions = << >>
    /\ expenses = << >>
    /\ savings = << >>
    /\ goals = << >>
    /\ mission \in {CareMission, NoMission}
    /\ procs = [p \in Procs |-> Idle]
    /\ last = NoResponse
    /\ nops = 0
    /\ adventures = << >>
    /\ profiles = [u \in Accounts |-> FALSE]
    /\ aiCalls = 0
    /\ tamagotchis = << >>
    /\ onboarding = [u \in Accounts |-> FALSE]
    /\ foods \in [FoodIds -> NutritionValues]
    /\ clock = Epoch

FeedStep(p) ==
    \/ feed_owns(p)
    \/ feed_save(p)
    \/ feed_consume_find(p)
    \/ feed_consume_save(p)
    \/ feed_commit(p)

PetStep(p) ==
    \/ choose_insert(p)
    \/ onboarding_find(p)
    \/ onboarding_save(p)
    \/ FeedStep(p)

PetRequest(p, limit) ==
    \/ createProfile(p, limit)
    \/ ChooseStarterCharacter(p, limit)
    \/ Feed(p, limit)

\* onboarding and feeding requests of one user served concurrently, where a
\* round trip may fail
NextPetFull == \E p \in Procs : PetRequest(p, 2) \/ PetStep(p) \/ db_error(p)

PetFullSpec == PetInit /\ [][NextPetFull]_vars

\* the stats a tamagotchi can have and the apples a user can hold when a Feed
\* arrives
HungerValues == {0, 1, 29, 30, 40, 50}
HappinessValues == {0, 50, 95, 99, 100}
HealthValues == {0, 95, 96, 100}
QuantityValues == {1, 2, 10}

\* Feed as a function of the stats, the food and the inventory: an onboarded
\* user with a tamagotchi and apples
FeedInit ==
    /\ wallets = [u \in Users |-> NoWallet]
    /\ ledger = << >>
    /\ \E q \in QuantityValues :
           inventory = <<[userId |-> "u1", itemType |-> "food", itemId |-> "apple",
                          quantity |-> q]>>
    /\ userMissions = << >>
    /\ expenses = << >>
    /\ savings = << >>
    /\ goals = << >>
    /\ mission \in {CareMission, NoMission}
    /\ procs = [p \in Procs |-> Idle]
    /\ last = NoResponse
    /\ nops = 0
    /\ adventures = << >>
    /\ profiles = [u \in Accounts |-> u = "u1"]
    /\ aiCalls = 0
    /\ \E hunger \in HungerValues, happiness \in HappinessValues, health \in HealthValues :
           tamagotchis = <<[userId |-> "u1", hunger |-> hunger, happiness |-> happiness,
                            health |-> health, lastFedAt |-> Null]>>
    /\ onboarding = [u \in Accounts |-> u = "u1"]
    /\ foods \in [FoodIds -> NutritionValues]
    /\ clock = Epoch

\* Feed requests served one at a time, every round trip succeeding
NextFeed == Feed(1, 1) \/ FeedStep(1)

FeedSpec == FeedInit /\ [][NextFeed]_vars

\* ------------------------------------------------------ feeds that overlap
\* the apples the user holds when the Feeds arrive
Ration == 1
\* the tamagotchi rows of the user: the table has no unique constraint on
\* user_id and two concurrent Chooses leave two rows
TamagotchiRows == {1, 2}

\* an onboarded user with Ration apples whose tamagotchi rows were never fed
MealInit ==
    /\ wallets = [u \in Users |-> NoWallet]
    /\ ledger = << >>
    /\ inventory = <<[userId |-> "u1", itemType |-> "food", itemId |-> "apple",
                      quantity |-> Ration]>>
    /\ userMissions = << >>
    /\ expenses = << >>
    /\ savings = << >>
    /\ goals = << >>
    /\ mission \in {CareMission, NoMission}
    /\ procs = [p \in Procs |-> Idle]
    /\ last = NoResponse
    /\ nops = 0
    /\ adventures = << >>
    /\ profiles = [u \in Accounts |-> u = "u1"]
    /\ aiCalls = 0
    /\ \E n \in TamagotchiRows : tamagotchis = [k \in 1..n |-> NewTamagotchi("u1")]
    /\ onboarding = [u \in Accounts |-> u = "u1"]
    /\ foods \in [FoodIds -> NutritionValues]
    /\ clock = Epoch

\* Feed requests of one user served concurrently, every round trip succeeding
NextMeal == \E p \in Procs : Feed(p, 2) \/ FeedStep(p)

MealSpec == MealInit /\ [][NextMeal]_vars

\* ------------------------------------------------------------ the auth gate
\* JwtStrategy.validate, part_007 lines 38-44: req.user is the users row that
\* AuthService.validateUser found; it has an id and no userId
req_user(principal) == [id |-> principal]

\* object.name
Property(object, name) == IF name \in DOMAIN object THEN object[name] ELSE Undefined

\* ProfileController.createProfile, create-profile.dto.ts line 77
ProfileController_createProfile(p, limit) ==
    \E principal \in Accounts :
        createProfileOf(p, limit, principal, Property(req_user(principal), "id"))

\* ProfileController.chooseCharacter, part_011 lines 128-139
ProfileController_chooseCharacter(p, limit) ==
    \E principal \in Accounts, c \in CharacterIds :
        chooseStarterCharacter_call(p, limit, principal,
                                    Property(req_user(principal), "id"), c)

\* TamagotchiController.feedTamagotchi, part_022 lines 53-66
TamagotchiController_feedTamagotchi(p, limit) ==
    \E principal \in Accounts, f \in FoodIds :
        feedTamagotchi_call(p, limit, principal,
                            Property(req_user(principal), "userId"), f)

\* requests of two accounts through the controllers, served one at a time
NextAuth ==
    \/ ProfileController_createProfile(1, 1)
    \/ ProfileController_chooseCharacter(1, 1)
    \/ TamagotchiController_feedTamagotchi(1, 1)
    \/ PetStep(1)

AuthSpec == PetInit /\ [][NextAuth]_vars

\* ------------------------------------------------- credits that overlap
\* Credit(userId, amount) with a positive amount, called while another request
\* may be in flight; the store the request found and its response are kept
credit_overlapping(p) ==
    \E u \in Users, a \in 1..MaxAmount :
        /\ procs[p].pc = "idle"
        /\ nops < MaxOps
        /\ nops' = nops + 1
        /\ ~creditRejects(a)
        /\ Call(p, 1, [op |-> "credit", user |-> u, pc |-> "credit_find",
                       amount |-> a, ret |-> "return"])
        /\ UNCHANGED <<db, mission, clock, pet, coach>>

\* Credits of one user served concurrently
NextRace == \E p \in Procs : credit_overlapping(p) \/ credit_find(p) \/ credit_save(p)

RaceSpec == Init /\ [][NextRace]_vars

\* ------------------------------------------------------ today's mission
\* the instants of two days, by the hour, and server time zones west and
\* east of UTC
Instants == 24..71
Zones == {-12, -5, 0, 7, 14}

\* the calendar date (days since day 0) of an instant in a zone
dateOf(instant, zone) == (instant + zone) \div 24

\* Date.UTC(year, month, date): the instant 00:00 UTC of a calendar date
Date_UTC(date) == date * 24

\* getTodaysMission, lines 227-228: new Date(), then Date.UTC of the fields
\* getFullYear(), getMonth(), getDate(), which are read in the server's zone
todayUTC(today, zone) == Date_UTC(dateOf(today, zone))

\* updateMissionProgress, lines 398-399: new Date(), then setHours(0, 0, 0, 0),
\* which is midnight of the date in the server's zone
setHours0(today, zone) == Date_UTC(dateOf(today, zone)) - zone

\* a Date handed to the query for the column active_date (type date) is
\* written as a calendar date in the server's zone, or in UTC when the driver
\* is set to parseInputDatesAsUTC
DriverZones(zone) == {zone, 0}

\* getTodaysMission, lines 226-237: the missions row findOne returns, named
\* by its active_date; the missions table has a row for every date
resolve_getTodaysMission(p, limit) ==
    \E u \in Users, dz \in DriverZones(clock.zone) :
        /\ Arrive(p, limit)
        /\ Reject(p, limit, "ok",
                  [op |-> "getTodaysMission", user |-> u,
                   today |-> dateOf(todayUTC(clock.now, clock.zone), dz)])
        /\ UNCHANGED <<db, mission, clock, pet, coach>>

\* updateMissionProgress, lines 397-407, called by logExpense and logSaving
resolve_updateMissionProgress(p, limit) ==
    \E u \in Users, op \in {"logExpense", "logSaving"},
       dz \in DriverZones(clock.zone) :
        /\ Arrive(p, limit)
        /\ Reject(p, limit, "ok",
                  [op |-> op, user |-> u,
                   today |-> dateOf(setHours0(clock.now, clock.zone), dz)])
        /\ UNCHANGED <<db, mission, clock, pet, coach>>

\* a server in any zone, started at any instant
ClockInit == Store /\ clock \in [now : Instants, zone : Zones]

NextClock == resolve_getTodaysMission(1, 1) \/ resolve_updateMissionProgress(1, 1)

ClockSpec == ClockInit /\ [][NextClock]_vars

\* -------------------------------------------------- the whole API, in turn
\* JwtStrategy.validate, part_007 lines 38-44: a credential whose user is not
\* found is refused before any handler runs
JwtStrategy_validate(p, limit) ==
    /\ Arrive(p, limit)
    /\ Reject(p, limit, "Unauthorized", [op |-> "validate", principal |-> "nobody"])
    /\ UNCHANGED <<db, mission, clock, pet, coach>>

\* ShopService.consumeItem, purchase-item.dto.ts lines 363-395, as the shop
\* offers it: the row is read (NotFound, insufficient quantity), then saved
\* or removed.  One action: requests that call it are served one at a time.
consumeItem(p, limit) ==
    \E u \in Users, item \in FoodIds,
       quantity \in {1, StarterApples, StarterApples + 1} :
        LET row == FindInventory(u, "food", item)
            fields == [op |-> "consumeItem", user |-> u, item |-> item,
                       amount |-> quantity]
        IN
        /\ limit = 1
        /\ Arrive(p, limit)
        /\ IF row = NoRow
           THEN /\ Reject(p, limit, "NotFound", fields)
                /\ inventory' = inventory
           ELSE IF inventory[row].quantity < quantity
           THEN /\ Reject(p, limit, "InsufficientQuantity", fields)
                /\ inventory' = inventory
           ELSE /\ Reject(p, limit, "ok", fields)
                /\ inventory' = consumeInventory(inventory, u, item,
                                                 inventory[row].quantity - quantity)
        /\ UNCHANGED <<wallets, ledger, userMissions, expenses, savings, goals,
                       mission, clock, pet, coach>>

\* the requests that raise the error kinds, and the steps of their handlers
ApiRequest(p, limit) ==
    \/ JwtStrategy_validate(p, limit)
    \/ credit_call(p, limit)
    \/ debit_call(p, limit)
    \/ createGoal(p, limit)
    \/ addProgress_call(p, limit)
    \/ consumeItem(p, limit)
    \/ createProfile(p, limit)
    \/ generateAdventure_call(p, limit)
    \/ submitChoice_call(p, limit)
    \/ ChooseStarterCharacter(p, limit)
    \/ Feed(p, limit)

ApiStep(p) ==
    \/ credit_find(p)
    \/ credit_save(p)
    \/ debit_find(p)
    \/ debit_save(p)
    \/ progress_find(p)
    \/ progress_save(p)
    \/ AdvStep(p)
    \/ PetStep(p)

\* no mission is active: the loggers and TodaysMission are not called here
ApiInit == Init /\ mission = NoMission

\* requests served one at a time, where a round trip may fail
NextApi == ApiRequest(1, 1) \/ ApiStep(1) \/ db_error(1)

ApiSpec == ApiInit /\ [][NextApi]_vars

\* ------------------------------------------------------------- observations
RECURSIVE SumAmounts(_)
SumAmounts(rows) ==
    IF rows = << >> THEN 0 ELSE Head(rows).amount + SumAmounts(Tail(rows))

RowsOf(rows, u) == SelectSeq(rows, LAMBDA r : r.walletId = u)

\* sum of the signed amounts of a user's wallet_transactions
LedgerSum(u) == SumAmounts(RowsOf(ledger, u))

\* no request is in flight
Quiet == InFlight = {}

\* the store as the last answered request found it
PreWallets == last.pre[1]
PreLedger == last.pre[2]
PreInventory == last.pre[3]

Answered(op) == Quiet /\ last.op = op

\* C1: every wallet's balance is >= 0 in every reachable state, whatever the
\* interleaving of Credit, Debit, Purchase, mission rewards and goal bonuses,
\* and whichever round trips fail.
C1_BalanceNonNegative ==
    \A u \in Users : CHK_wallets_balance_non_negative(wallets[u].balance)

\* a debit has brought a wallet that held coins down to zero
C1_Witness ==
    /\ Quiet
    /\ \E u \in Users : wallets[u].exists /\ wallets[u].balance = 0
    /\ \E k \in 1..Len(ledger) : ledger[k].amount < 0

\* C2: when requests do not overlap, after every completed request the signed
\* amounts of a wallet's ledger rows sum to its balance; a successful Credit
\* has appended exactly one row with +amount and a successful Debit exactly
\* one row with -amount.
C2_LedgerReconciles ==
    Quiet =>
        /\ \A u \in Users : LedgerSum(u) = wallets[u].balance
        /\ (last.op = "credit" /\ last.status = "ok") =>
               ledger = Append(PreLedger,
                               LedgerRow(last.user, last.amount, "credit", "none"))
        /\ (last.op = "debit" /\ last.status = "ok") =>
               ledger = Append(PreLedger,
                               LedgerRow(last.user, -last.amount, "debit", "none"))

\* a Debit succeeded on a wallet with earlier ledger rows
C2_Witness ==
    /\ Answered("debit")
    /\ last.status = "ok"
    /\ Len(ledger) >= 2
    /\ wallets[last.user].balance > 0

\* C3: concurrent Credit/Debit calls on one wallet behave as if serialized:
\* once they have all returned, the balance is the sum of the signed amounts
\* of the calls that succeeded (the ledger rows).
C3_Serialized ==
    Quiet => \A u \in Users : LedgerSum(u) = wallets[u].balance

\* C4: a Purchase that fails leaves the wallet, the ledger and the inventory
\* as they were before the call.
C4_PurchaseAllOrNothing ==
    (Answered("purchaseItem") /\ last.status # "ok") =>
        /\ wallets = PreWallets
        /\ ledger = PreLedger
        /\ inventory = PreInventory

\* the inventory effect of a purchase: a row inserted with quantity 1, or the
\* quantity of the user's row raised by 1
InsertedRow(u, item) ==
    /\ FindInventory(u, ItemType(item), item) = Len(inventory)
    /\ inventory = Append(PreInventory, [userId |-> u, itemType |-> ItemType(item),
                                         itemId |-> item, quantity |-> 1])

IncrementedRow(u, item) ==
    LET row == FindInventory(u, ItemType(item), item) IN
    /\ Len(inventory) = Len(PreInventory)
    /\ row # NoRow
    /\ inventory = [PreInventory EXCEPT ![row].quantity = @ + 1]

PurchaseDebited ==
    /\ ledger = Append(PreLedger, LedgerRow(last.user, -Price(last.item),
                                            "shop_purchase", last.item))
    /\ last.balance = PreWallets[last.user].balance - Price(last.item)
    /\ wallets[last.user].balance = last.balance

OwnedBefore(u, item) ==
    \E k \in 1..Len(PreInventory) :
        PreInventory[k].userId = u /\ PreInventory[k].itemId = item

\* C5 as stated: every successful Purchase appends exactly one ledger row
\* with -price, has exactly one inventory effect (insert, or quantity + 1) and
\* returns the balance before the purchase minus the price.
C5_PurchaseEffects ==
    (Answered("purchaseItem") /\ last.status = "ok") =>
        /\ PurchaseDebited
        /\ InsertedRow(last.user, last.item) \/ IncrementedRow(last.user, last.item)

\* C5 amended: as above when requests do not overlap, except that the
\* purchase of a character the user already owns has no inventory effect
\* (it is still debited).
C5_PurchaseEffectsAmended ==
    (Answered("purchaseItem") /\ last.status = "ok") =>
        /\ PurchaseDebited
        /\ IF ~OwnedBefore(last.user, last.item)
           THEN InsertedRow(last.user, last.item)
           ELSE IF ItemType(last.item) = "food"
           THEN IncrementedRow(last.user, last.item)
           ELSE inventory = PreInventory

\* a character was bought by a user who owned it already
C5_Witness ==
    /\ Answered("purchaseItem")
    /\ last.status = "ok"
    /\ ItemType(last.item) = "character"
    /\ OwnedBefore(last.user, last.item)

RewardRows(u) ==
    Cardinality({k \in 1..Len(ledger) :
                    /\ ledger[k].walletId = u
                    /\ ledger[k].transactionType = "mission_reward"
                    /\ ledger[k].description = mission.id})

\* the user's UserMission for today's mission is stored as completed
MissionCompleted(u) ==
    /\ FindUserMission(u, mission) # NoRow
    /\ userMissions[FindUserMission(u, mission)].completed

\* C7, state part: for any sequence of TodaysMission, LogExpense and LogSaving
\* calls, the mission_reward credits of a (user, mission) number 1 when the
\* UserMission is completed and 0 otherwise.
C7_RewardIffCompleted ==
    Quiet => \A u \in Users : RewardRows(u) = IF MissionCompleted(u) THEN 1 ELSE 0

\* C7, step part: completed never goes from true to false.
C7_CompletedStays ==
    \A k \in 1..Len(userMissions) :
        userMissions[k].completed =>
            /\ k <= Len(userMissions')
            /\ userMissions'[k].completed

\* C7: both parts.
C7_MissionRewardOnce == [](C7_RewardIffCompleted) /\ [][C7_CompletedStays]_vars

\* an activity was logged after the mission was completed
C7_Witness ==
    /\ Quiet
    /\ last.op \in {"logExpense", "logSaving"}
    /\ last.status = "ok"
    /\ Len(expenses) + Len(savings) >= 2
    /\ \E u \in Users : MissionCompleted(u) /\ RewardRows(u) = 1
    /\ \E k \in 1..Len(last.pre[4]) : last.pre[4][k].completed

\* C8: concurrent LogExpense/LogSaving calls that together reach the
\* requirement complete the mission once: at most one mission_reward row per
\* (user, mission).
C8_ConcurrentRewardOnce == \A u \in Users : RewardRows(u) <= 1

\* goal_bonus ledger rows of a goal
BonusRows(g) ==
    Cardinality({k \in 1..Len(ledger) :
                    /\ ledger[k].transactionType = "goal_bonus"
                    /\ ledger[k].description = g})

\* C9: once every request has been answered, failed ones included, a
\* mission_reward row exists only for a UserMission stored as completed and a
\* goal_bonus row only for a Goal stored as completed.
C9_RewardOnlyWithCompletion ==
    Quiet =>
        /\ \A u \in Users : RewardRows(u) > 0 => MissionCompleted(u)
        /\ \A g \in 1..Len(goals) : BonusRows(g) > 0 => goals[g].completed

\* the number of expenses (savings) a mission of an expense (saving) type
\* asks for, under either spelling of the requirements key
RequiredExpenses(m) ==
    IF "expenseCount" \in DOMAIN m.requirements THEN m.requirements.expenseCount
    ELSE Req(m, "expense_count")

RequiredSavings(m) ==
    IF "savingCount" \in DOMAIN m.requirements THEN m.requirements.savingCount
    ELSE Req(m, "saving_count")

\* the k-th activity of a mission asking for N reports min(100, 100 * k / N);
\* the N-th reports completed and the reward is in the ledger
ReportsProgress(k, N) ==
    /\ PctEq(last.pct, Min100(<<100 * k, N>>))
    /\ k = N => last.completed /\ RewardRows(last.user) = 1

\* C10: with a mission of type log_expenses or expense_tracking that asks for
\* N expenses, the k-th LogExpense of the day reports min(100, 100 * k / N),
\* and the N-th reports 100 and completed and credits the reward; likewise
\* log_savings / saving_tracking with LogSaving.
C10_ExpenseProgress ==
    /\ (/\ Answered("logExpense")
        /\ last.status = "ok"
        /\ mission.missionType \in {"log_expenses", "expense_tracking"}) =>
           ReportsProgress(Len(expenses), RequiredExpenses(mission))
    /\ (/\ Answered("logSaving")
        /\ last.status = "ok"
        /\ mission.missionType \in {"log_savings", "saving_tracking"}) =>
           ReportsProgress(Len(savings), RequiredSavings(mission))

PreUserMissions == last.pre[4]
PreExpenses == last.pre[5]
PreSavings == last.pre[6]
PreGoals == last.pre[7]

\* the user's UserMission for today's mission was stored as completed when
\* the last answered request arrived
CompletedBefore(u) ==
    \E k \in 1..Len(PreUserMissions) :
        /\ PreUserMissions[k].userId = u
        /\ PreUserMissions[k].missionId = mission.id
        /\ PreUserMissions[k].completed

\* the activity row of the last answered LogExpense / LogSaving was appended
ActivityAppended ==
    /\ expenses = IF last.op = "logExpense" THEN Append(PreExpenses, last.amount)
                  ELSE PreExpenses
    /\ savings = IF last.op = "logSaving" THEN Append(PreSavings, last.amount)
                 ELSE PreSavings

\* C11: a LogExpense / LogSaving made when today's UserMission is already
\* completed appends the activity row, answers completed = true, leaves the
\* UserMission row as it was and changes neither wallet nor ledger.
C11_LogAfterCompletion ==
    (/\ Quiet
     /\ last.op \in {"logExpense", "logSaving"}
     /\ last.amount > 0
     /\ CompletedBefore(last.user)) =>
        /\ last.status = "ok"
        /\ last.completed
        /\ ActivityAppended
        /\ userMissions = PreUserMissions
        /\ wallets = PreWallets
        /\ ledger = PreLedger

\* C12, state part: completedAt is set exactly on the completed goals.
C12_CompletedAtIffCompleted ==
    \A g \in 1..Len(goals) : goals[g].completedAt <=> goals[g].completed

\* C12, step part: a completed goal stays completed.
C12_GoalStaysCompleted ==
    \A g \in 1..Len(goals) :
        goals[g].completed => g <= Len(goals') /\ goals'[g].completed

\* C12: for any sequence of goal operations (round trips may fail),
\* Goal.completed never reverts and completedAt is set iff completed.
C12_GoalCompletedOnce ==
    [](C12_CompletedAtIffCompleted) /\ [][C12_GoalStaysCompleted]_vars

\* an AddProgress was refused on a goal completed earlier
C12_Witness ==
    /\ Answered("addProgress")
    /\ last.status = "AlreadyCompleted"
    /\ goals[last.goal].completed
    /\ goals[last.goal].completedAt

\* C13: on a goal with targetAmount > 0, an AddProgress that brings
\* currentAmount to the target or beyond succeeds, completes the goal and
\* credits floor(targetAmount / 10); an AddProgress on a completed goal is
\* refused with AlreadyCompleted and changes nothing.
C13_GoalCompletion ==
    (/\ Answered("addProgress")
     /\ last.amount > 0
     /\ last.goal <= Len(PreGoals)
     /\ ~PreGoals[last.goal].deleted) =>
        LET goal == PreGoals[last.goal]
            bonus == goalBonus(goal.targetAmount)
        IN IF goal.completed
           THEN /\ last.status = "AlreadyCompleted"
                /\ db = SubSeq(last.pre, 1, Len(db))
           ELSE goal.currentAmount + last.amount >= goal.targetAmount =>
                /\ last.status = "ok"
                /\ goals[last.goal].completed
                /\ last.bonus = bonus
                /\ wallets[last.user].balance =
                       PreWallets[last.user].balance + bonus

\* C14: concurrent AddProgress calls that together cross the target credit
\* the goal_bonus at most once.
C14_ConcurrentBonusOnce == \A g \in 1..Len(goals) : BonusRows(g) <= 1

PreAdventures == last.pre[8]
PreProfiles == last.pre[9]
PreAiCalls == last.pre[10]

\* the two states of an adventure row
Unsubmitted(adventure) ==
    /\ adventure.selectedChoiceIndex = Null
    /\ adventure.feedback = Null
    /\ adventure.scores = NullScores
    /\ adventure.evaluationOpikTraceId = Null
    /\ adventure.evaluatedAt = Null

Evaluated(adventure) ==
    /\ adventure.selectedChoiceIndex >= 0
    /\ adventure.selectedChoiceIndex < adventure.choices
    /\ adventure.feedback # Null
    /\ adventure.scores # NullScores
    /\ adventure.evaluationOpikTraceId # Null
    /\ adventure.evaluatedAt # Null

\* C15, state part: every adventure is Unsubmitted or Evaluated.
C15_UnsubmittedOrEvaluated ==
    \A a \in 1..Len(adventures) :
        Unsubmitted(adventures[a]) \/ Evaluated(adventures[a])

\* C15, step part: an Evaluated adventure stays Evaluated.
C15_EvaluatedStays ==
    \A a \in 1..Len(adventures) :
        Evaluated(adventures[a]) => a <= Len(adventures') /\ Evaluated(adventures'[a])

\* C15: in every reachable state each adventure is Unsubmitted or Evaluated,
\* and Evaluated is terminal; requests may overlap, the AI service and the
\* database may fail.
C15_AdventureStates ==
    [](C15_UnsubmittedOrEvaluated) /\ [][C15_EvaluatedStays]_vars

\* an adventure has been evaluated while another is still unsubmitted
C15_Witness ==
    /\ Quiet
    /\ \E a \in 1..Len(adventures) : Evaluated(adventures[a])
    /\ \E a \in 1..Len(adventures) : Unsubmitted(adventures[a])

\* C16, as a step property: the evaluation of an adventure is written once;
\* a row whose selectedChoiceIndex is set is never written again, whatever the
\* interleaving of SubmitChoice calls.
C16_WrittenOnce ==
    \A a \in 1..Len(adventures) :
        adventures[a].selectedChoiceIndex # Null => adventures'[a] = adventures[a]

\* C16: for any interleaving of two SubmitChoice calls on one unsubmitted
\* adventure, at most one succeeds and the stored evaluation is never
\* overwritten.
C16_SubmitOnce == [][C16_WrittenOnce]_vars

\* C17: a SubmitChoice on an adventure whose selectedChoiceIndex is set fails
\* with AlreadySubmitted whatever the choiceIndex, calls the AI service not
\* at all and writes nothing.
C17_AlreadySubmitted ==
    (/\ Answered("submitChoice")
     /\ last.adventure <= Len(PreAdventures)
     /\ PreAdventures[last.adventure].selectedChoiceIndex # Null) =>
        /\ last.status = "AlreadySubmitted"
        /\ aiCalls = PreAiCalls
        /\ adventures = PreAdventures

\* a second SubmitChoice, with another index, was refused
C17_Witness ==
    /\ Answered("submitChoice")
    /\ last.status = "AlreadySubmitted"
    /\ last.choiceIndex # adventures[last.adventure].selectedChoiceIndex
    /\ adventures[last.adventure].selectedChoiceIndex = 0

\* C18: a SubmitChoice whose AI call fails answers ServiceUnavailable and
\* leaves the adventure as it was, Unsubmitted, so that the same SubmitChoice
\* passes the checks again; a SubmitChoice that answers ServiceUnavailable
\* has written nothing.
C18_EvaluationFailure ==
    Answered("submitChoice") =>
        /\ (aiCalls > PreAiCalls /\ last.status # "ok") =>
               last.status = "ServiceUnavailable"
        /\ last.status = "ServiceUnavailable" =>
               /\ adventures = PreAdventures
               /\ Unsubmitted(adventures[last.adventure])
               /\ last.choiceIndex >= 0
               /\ last.choiceIndex < adventures[last.adventure].choices

\* a SubmitChoice failed on the AI service
C18_Witness ==
    /\ Answered("submitChoice")
    /\ last.status = "ServiceUnavailable"
    /\ aiCalls = PreAiCalls + 1

\* C19: a SubmitChoice on an unsubmitted adventure with choiceIndex < 0 or
\* choiceIndex >= len(choices) fails with InvalidChoice, calls the AI service
\* not at all and leaves the adventures as they were.
C19_InvalidChoice ==
    (/\ Answered("submitChoice")
     /\ last.adventure <= Len(PreAdventures)
     /\ PreAdventures[last.adventure].selectedChoiceIndex = Null
     /\ \/ last.choiceIndex < 0
        \/ last.choiceIndex >= PreAdventures[last.adventure].choices) =>
        /\ last.status = "InvalidChoice"
        /\ aiCalls = PreAiCalls
        /\ adventures = PreAdventures

\* the index len(choices) was refused
C19_Witness ==
    /\ Answered("submitChoice")
    /\ last.status = "InvalidChoice"
    /\ last.choiceIndex = adventures[last.adventure].choices

C21_ScoresAsGiven ==
    (Quiet /\ last.op = "submitChoice" /\ last.status = "ok") =>
        /\ adventures[last.adventure].scores = last.response.scores
        /\ adventures[last.adventure].evaluationOpikTraceId = last.response.opik_trace_id

\* the POSTs the last answered request sent to the AI service
Posts == aiCalls - PreAiCalls

AllServerErrors(received) == \A i \in 1..Len(received) : received[i] >= 500

\* C22: with the default configuration a call answered 5xx is retried until
\* the retries are exhausted and only then surfaces ServiceUnavailable, so a
\* call answered 5xx, 5xx, 200 makes its third attempt; a call whose last
\* attempt is answered 200 returns the decoded body of that response.
C22_RetryServerErrors ==
    (Quiet /\ last.op \in {"generateAdventure", "submitChoice"}) =>
        /\ (last.status = "ServiceUnavailable" /\ AllServerErrors(last.received)) =>
               /\ Len(last.received) = maxRetries + 1
               /\ Posts = maxRetries + 1
        /\ (last.received # << >> /\ last.received[Len(last.received)] = 200
                /\ last.op = "generateAdventure") =>
               /\ last.status = "ok"
               /\ adventures[last.adventure].generationOpikTraceId
                      = last.response.opik_trace_id
               /\ adventures[last.adventure].choices = last.response.choices

\* C23: an AI response with a 4xx status other than 429 is not retried, one
\* POST is issued, and the error is surfaced as it is, not as
\* ServiceUnavailable.
C23_ClientErrorVerbatim ==
    (Quiet /\ last.op \in {"generateAdventure", "submitChoice"}
           /\ last.received # << >> /\ last.received[Len(last.received)] = 400) =>
        /\ Posts = 1
        /\ last.status # "ServiceUnavailable"

PreTamagotchis == last.pre[11]
PreOnboarding == last.pre[12]

InRange(x) == x \in 0..100

\* C24: in every reachable state, after any sequence and interleaving of
\* ChooseStarterCharacter and Feed, the hunger, happiness and health of each
\* tamagotchi are integers in [0, 100].
C24_StatsInRange ==
    \A k \in 1..Len(tamagotchis) :
        /\ InRange(tamagotchis[k].hunger)
        /\ InRange(tamagotchis[k].happiness)
        /\ InRange(tamagotchis[k].health)

\* a tamagotchi fed 30 twice from 50/50/100: the second feed stops at hunger 0
C24_Witness ==
    \E k \in 1..Len(tamagotchis) :
        /\ foods["apple"] = 30
        /\ tamagotchis[k].lastFedAt # Null
        /\ tamagotchis[k].hunger = 0
        /\ tamagotchis[k].happiness = 80

\* the quantity of a food a user holds
OwnedQuantity(inv, u, item) ==
    LET hits == {k \in 1..Len(inv) : /\ inv[k].userId = u
                                     /\ inv[k].itemType = "food"
                                     /\ inv[k].itemId = item}
    IN IF hits = {} THEN 0 ELSE inv[CHOOSE k \in hits : TRUE].quantity

\* the last answered request is a successful Feed
FedOk == Quiet /\ last.op = "feed" /\ last.status = "ok"

\* C25: a successful Feed with a food of nutrition n sets hunger' =
\* max(0, hunger - n), happiness' = min(100, happiness + floor(n/2)), health'
\* = min(100, health + 5) if hunger' < 30 and health otherwise, returns these
\* stats, and takes exactly 1 from the caller's quantity of that food.
C25_FeedEffects ==
    FedOk =>
        LET old == PreTamagotchis[1]
            new == tamagotchis[1]
            n == foods[last.item]
        IN
        /\ new.hunger = (IF old.hunger - n > 0 THEN old.hunger - n ELSE 0)
        /\ new.happiness = (IF old.happiness + (n \div 2) < 100
                            THEN old.happiness + (n \div 2) ELSE 100)
        /\ new.health = (IF new.hunger >= 30 THEN old.health
                         ELSE IF old.health + 5 < 100 THEN old.health + 5 ELSE 100)
        /\ last.stats = [hunger |-> new.hunger, happiness |-> new.happiness,
                         health |-> new.health]
        /\ OwnedQuantity(inventory, last.user, last.item)
              = OwnedQuantity(PreInventory, last.user, last.item) - 1

\* from 50/50/100 with 10 apples of nutrition 10: 40/55/100 and 9 apples
C25_Witness ==
    /\ FedOk
    /\ foods[last.item] = 10
    /\ PreTamagotchis[1].hunger = 50
    /\ PreTamagotchis[1].happiness = 50
    /\ PreTamagotchis[1].health = 100
    /\ OwnedQuantity(PreInventory, last.user, last.item) = 10
    /\ last.stats = [hunger |-> 40, happiness |-> 55, health |-> 100]
    /\ OwnedQuantity(inventory, last.user, last.item) = 9

\* C26: when today's mission is of type tamagotchi_care, a successful Feed
\* counts towards it, and the Feed that meets the requirement (the seeded
\* mission asks for one feed) completes the mission and credits its reward
\* exactly once.
C26_FeedCompletesCareMission ==
    (FedOk /\ mission.missionType = "tamagotchi_care") =>
        /\ MissionCompleted(last.user)
        /\ RewardRows(last.user) = 1

\* C27: a Feed of a tamagotchi with hunger 0 leaves the hunger at 0 and
\* strictly increases the happiness whenever it is below 100, for every owned
\* food with nutritionValue >= 1.
C27_FeedAtZeroHunger ==
    (FedOk /\ PreTamagotchis[1].hunger = 0 /\ foods[last.item] >= 1) =>
        /\ tamagotchis[1].hunger = 0
        /\ PreTamagotchis[1].happiness < 100 =>
               tamagotchis[1].happiness > PreTamagotchis[1].happiness

\* C27 amended: the same for every owned food with nutritionValue >= 2.
C27_FeedAtZeroHungerAmended ==
    (FedOk /\ PreTamagotchis[1].hunger = 0 /\ foods[last.item] >= 2) =>
        /\ tamagotchis[1].hunger = 0
        /\ PreTamagotchis[1].happiness < 100 =>
               tamagotchis[1].happiness > PreTamagotchis[1].happiness

\* a food of nutrition 2 fed at hunger 0 and happiness 99
C27_Witness ==
    /\ FedOk
    /\ foods[last.item] = 2
    /\ PreTamagotchis[1].hunger = 0
    /\ PreTamagotchis[1].happiness = 99
    /\ tamagotchis[1].hunger = 0
    /\ tamagotchis[1].happiness = 100

\* C28: in every reachable state, concurrent ChooseStarterCharacter calls of
\* one user included, a user has at most one tamagotchi.
C28_OneTamagotchi ==
    \A u \in Users : Cardinality({k \in 1..Len(tamagotchis) :
                                     tamagotchis[k].userId = u}) <= 1

\* C29: whenever no request is in flight, for every user with a profile,
\* onboardingCompleted is true if and only if the user has a tamagotchi.
C29_OnboardingIffTamagotchi ==
    Quiet =>
        \A u \in Users :
            profiles[u] =>
                (onboarding[u] <=> \E k \in 1..Len(tamagotchis) :
                                       tamagotchis[k].userId = u)

\* the rows of the other accounts are as the request found them
OthersUntouched(now, before, principal) ==
    /\ Len(now) >= Len(before)
    /\ \A k \in 1..Len(before) :
           before[k].userId # principal => now[k] = before[k]

\* C30: for every protected operation the user id handed to the domain
\* service is the id of the principal of the bearer credential, and an
\* operation issued by one user leaves the rows owned by another user as they
\* were.
C30_HandedUserIsPrincipal ==
    /\ \A p \in Procs : procs[p].pc # "idle" => procs[p].user = procs[p].principal
    /\ (Quiet /\ last.op \in {"createProfile", "chooseCharacter", "feed"}) =>
           /\ last.user = last.principal
           /\ OthersUntouched(tamagotchis, PreTamagotchis, last.principal)
           /\ \A u \in Accounts \ {last.principal} :
                  OwnedQuantity(inventory, u, "apple")
                      = OwnedQuantity(PreInventory, u, "apple")

\* the error kinds the mapping to HTTP names
ErrorKinds == {"Unauthorized", "Forbidden", "NotFound", "Conflict",
               "AlreadySubmitted", "AlreadyCompleted", "InvalidAmount",
               "InvalidChoice", "InvalidStarter", "InsufficientFunds",
               "InsufficientQuantity", "ServiceUnavailable", "Internal"}

\* a request has been answered with an error of one of these kinds
Failed(kinds) == Quiet /\ last.status \in kinds

C32_TodayIsUtcDate ==
    (Quiet /\ last.op \in {"getTodaysMission", "logExpense", "logSaving"}) =>
        last.today = dateOf(clock.now, 0)

\* C33: when no mission is active today, a LogExpense / LogSaving with a
\* positive amount succeeds: the activity row is appended, the result has
\* missionProgress = 0 and completed = false, no UserMission is created and
\* the wallet and the ledger are as they were.
C33_LogWithoutMission ==
    (/\ Quiet
     /\ last.op \in {"logExpense", "logSaving"}
     /\ last.amount > 0
     /\ mission = NoMission) =>
        /\ last.status = "ok"
        /\ PctEq(last.pct, Zero)
        /\ ~last.completed
        /\ ActivityAppended
        /\ userMissions = PreUserMissions
        /\ wallets = PreWallets
        /\ ledger = PreLedger

\* a saving has been logged with no mission active, after an expense
C33_Witness ==
    /\ Answered("logSaving")
    /\ mission = NoMission
    /\ last.status = "ok"
    /\ last.amount > 0
    /\ Len(expenses) = 1
    /\ Len(savings) = Len(PreSavings) + 1
    /\ userMissions = << >>

\* the (userId, itemType, itemId) of a user_inventory row
InventoryKey(row) == <<row.userId, row.itemType, row.itemId>>

\* C34: in every reachable state, concurrent Purchases of one item by one
\* user included, there is at most one user_inventory row per (userId,
\* itemType, itemId), and no stored row has quantity <= 0.
C34_OneRowPerItem ==
    /\ \A k, j \in 1..Len(inventory) :
           InventoryKey(inventory[k]) = InventoryKey(inventory[j]) => k = j
    /\ \A k \in 1..Len(inventory) : inventory[k].quantity > 0

\* C35: in every reachable state, concurrent TodaysMission and LogExpense /
\* LogSaving calls of one user included, there is at most one user_missions
\* row per (userId, missionId).
C35_OneUserMission ==
    \A k, j \in 1..Len(userMissions) :
        (/\ userMissions[k].userId = userMissions[j].userId
         /\ userMissions[k].missionId = userMissions[j].missionId) => k = j

\* the delays retryDelay * 2^k for k = 0 .. n - 1
Doubling(n) == [k \in 1..n |-> retryDelay * 2 ^ (k - 1)]

\* C36: every AI client call ends after at most maxRetries + 1 POST attempts,
\* with a response body or with ServiceUnavailable, and the wait before the
\* retry that follows failed attempt number k (k = 0, 1, ...) is
\* retryDelay * 2^k.
C36_BoundedBackoff ==
    /\ \A p \in Procs :
           /\ procs[p].attempt <= maxRetries
           /\ Len(procs[p].received) <= maxRetries + 1
           /\ procs[p].pc \in {"generate_ai", "submit_ai"} =>
                  /\ Len(procs[p].received) = procs[p].attempt
                  /\ procs[p].slept = Doubling(procs[p].attempt)
    /\ (Quiet /\ last.received # << >>) =>
           LET attempts == Len(last.received) IN
           /\ Posts <= attempts
           /\ attempts <= maxRetries + 1
           /\ last.status \in {"ok", "ServiceUnavailable"}
           /\ last.status = "ok" <=> last.received[attempts] = 200
           /\ last.slept = Doubling(attempts - 1)

\* an evaluation was answered at the last of maxRetries + 1 attempts
C36_Witness ==
    /\ Answered("submitChoice")
    /\ last.status = "ok"
    /\ Len(last.received) = maxRetries + 1
    /\ last.slept = <<retryDelay, 2 * retryDelay, 4 * retryDelay>>

\* C37: a wallet operation that loses a conflict at the storage level (two
\* first Credits of a user both inserting the wallets row) is retried, at most
\* once, or answered with Conflict, and its ledger row and balance change are
\* both applied or both absent: a Credit with a positive amount is answered
\* ok or Conflict, and a user has a wallets row exactly when the ledger has a
\* row of that wallet.
C37_ConflictOrRetried ==
    /\ (Quiet /\ last.op = "credit" /\ last.amount > 0) =>
           last.status \in {"ok", "Conflict"}
    /\ \A u \in Users : wallets[u].exists <=> RowsOf(ledger, u) # << >>
\* the tamagotchi rows a Feed has written
FedRows == {k \in 1..Len(tamagotchis) : tamagotchis[k].lastFedAt # Null}

\* C38: however concurrent Feeds of one user with one food interleave, no more
\* Feeds succeed (each success writes the stats and the feeding time of a
\* tamagotchi row) than the user held units of the food, and no inventory row
\* holds a negative quantity
C38_FeedsWithinUnits ==
    /\ Cardinality(FedRows) <= Ration
    /\ \A k \in 1..Len(inventory) : inventory[k].quantity >= 0

\* C39: a Purchase of a catalog item whose price is 0 (a starter character) is
\* answered 400, thrown by the debit's check that the amount is positive, and
\* leaves the wallet, the ledger and the inventory as they were
C39_FreeItemRejected ==
    (Answered("purchaseItem") /\ last.item \in Items /\ Price(last.item) = 0) =>
        /\ last.status = "InvalidAmount"
        /\ last.http = 400
        /\ wallets = PreWallets
        /\ ledger = PreLedger
        /\ inventory = PreInventory

\* a user with coins has asked to buy the starter character
C39_Witness ==
    /\ Answered("purchaseItem")
    /\ last.item = "foxy"
    /\ last.status = "InvalidAmount"
    /\ wallets[last.user].exists
    /\ wallets[last.user].balance >= 1

\* today's mission pays no coins
ZeroReward == mission # NoMission /\ mission.rewardCoins = 0

\* the user's row for today's mission when the last answered request arrived
PreUserMission(u) ==
    LET hits == {k \in 1..Len(PreUserMissions) :
                    /\ PreUserMissions[k].userId = u
                    /\ PreUserMissions[k].missionId = mission.id}
    IN IF hits = {} THEN [expenseCount |-> 0, savingCount |-> 0, completed |-> FALSE]
       ELSE PreUserMissions[CHOOSE k \in hits : \A j \in hits : k <= j]

\* the last answered log brings the progress of a mission not yet completed
\* to 100%
BringsTo100 ==
    LET um == PreUserMission(last.user)
        e == um.expenseCount + (IF last.op = "logExpense" THEN 1 ELSE 0)
        g == um.savingCount + (IF last.op = "logSaving" THEN 1 ELSE 0)
    IN ~um.completed /\ PctGe100(calculateProgress(mission, e, g))

\* C40: while today's mission has rewardCoins = 0, a LogExpense or LogSaving
\* that brings the progress to 100% is answered with the credit's
\* positive-amount error (400) and rolled back whole: no activity row, no
\* change of the progress, the wallet or the ledger.  So no UserMission of
\* that mission is ever completed, and the next log of that kind meets the
\* same counters and fails the same way.
C40_ZeroRewardNeverCompletes ==
    ZeroReward =>
        /\ \A k \in 1..Len(userMissions) :
               userMissions[k].missionId = mission.id => ~userMissions[k].completed
        /\ (/\ Quiet
            /\ last.op \in {"logExpense", "logSaving"}
            /\ last.amount > 0
            /\ BringsTo100) =>
               /\ last.status = "InvalidAmount"
               /\ last.http = 400
               /\ expenses = PreExpenses
               /\ savings = PreSavings
               /\ userMissions = PreUserMissions
               /\ wallets = PreWallets
               /\ ledger = PreLedger

\* the log that would complete the mission has failed, after an earlier log
\* that counted
C40_Witness ==
    /\ ZeroReward
    /\ Answered("logExpense")
    /\ last.amount > 0
    /\ BringsTo100
    /\ last.status = "InvalidAmount"
    /\ PreUserMission(last.user).expenseCount = 1
    /\ Len(expenses) = 1

====
